---- MODULE Spec2Model ----
(***************************************************************************)
(* EdSteward.ai validation orchestration engine.                           *)
(*                                                                         *)
(* The model follows the orchestrator Lambda (handler,                     *)
(* handleValidationRequest, handleBatchValidationRequest,                  *)
(* generateCertificate), the router (routeToValidator,                     *)
(* performBasicValidation), the request validation module, the audit       *)
(* module (createAuditEvent and its two sinks) and the database module     *)
(* (getDbConnection).  One JavaScript run-to-completion segment, from one  *)
(* await to the next, is one action; every collaborator call (store,       *)
(* remote validator, version service, audit service) answers with a        *)
(* nondeterministically chosen outcome.                                    *)
(*                                                                         *)
(* Conventions: Undefined stands for a JSON field that is absent; a text   *)
(* is a sequence of characters; a version string is a sequence of          *)
(* character classes ("d" a digit, "." a dot, "x" anything else); a        *)
(* validator ARN is represented by the level (1..3) of the environment     *)
(* variable LEVELn_VALIDATOR_ARN that holds it, 0 when it is unset.        *)
(***************************************************************************)
EXTENDS Integers, Sequences, FiniteSets, TLC

\* ------------------------------------------------------------------ bounds
\* Largest batch the model fans out (the code accepts up to 50 items).
MaxBatch == 2
\* Longest list of validator results handed to mergeValidationResults.
MaxResults == 3

\* ------------------------------------------------------- program constants
\* certaintyLevel from which an attestation certificate is issued.
AttestationThreshold == 4
\* requireCertainty when options.requireCertainty is absent.
DefaultRequireCertainty == 1
\* validationLevel when the request names none.
DefaultValidationLevel == 1
\* certaintyLevel of the local basic validator for existing text.
BasicCertaintyValid == 2
\* certaintyLevel of the local basic validator for missing text.
BasicCertaintyInvalid == 1
\* validationLevel reported by the local basic validator.
BasicValidationLevel == 1

\* An absent JSON field (JavaScript undefined).
Undefined == -1

Tasks == 0 .. MaxBatch
Items == 1 .. MaxBatch

\* ------------------------------------------------------------ input domains
Text0 == << >>
Text1 == << "a" >>
Text2 == << "a", " ", "b", "." >>
Texts == { Text0, Text1, Text2 }

Version123 == << "d", ".", "d", ".", "d" >>
VersionShort == << "d", ".", "d" >>
VersionMissing == << >>

\* ------------------------------------------------------- request validation
\* /^\d+\.\d+\.\d+$/ as an automaton over character classes: state s in 0..5
\* (0,2,4: a group must start; 1,3,5: inside a digit group).
RECURSIVE SemverRun(_, _, _)
SemverRun(version, i, s) ==
  IF i > Len(version) THEN s = 5
  ELSE IF version[i] = "d" THEN
         SemverRun(version, i + 1, IF s \in {0, 2, 4} THEN s + 1 ELSE s)
  ELSE IF version[i] = "." /\ s \in {1, 3} THEN SemverRun(version, i + 1, s + 1)
  ELSE FALSE

\* The pattern without its end anchor: a prefix of the version may match.
isValidSemanticVersionUnanchored(version) ==
  \E n \in 1 .. Len(version) : SemverRun(SubSeq(version, 1, n), 1, 0)

isValidSemanticVersion(version) ==
  IF version = << >> THEN FALSE ELSE SemverRun(version, 1, 0)

\* A validator of the request shape that leaves out the version format check.
validateValidationRequestNoFormat(request) ==
  (IF request.regulationId = "" THEN << "regulationId" >> ELSE << >>)
  \o (IF request.regulationVersion = << >> THEN << "regulationVersion" >> ELSE << >>)
  \o (IF ~request.hasContent THEN << "regulationContent" >>
      ELSE IF request.text = << >> THEN << "regulationContent.text" >>
      ELSE << >>)
  \o (IF request.validationLevel # Undefined /\ request.validationLevel \notin {1, 2, 3}
      THEN << "validationLevel" >> ELSE << >>)
  \o (IF request.requireCertainty # Undefined
         /\ request.requireCertainty \notin {1, 2, 3, 4, 5}
      THEN << "options.requireCertainty" >> ELSE << >>)

\* The error fields validateValidationRequest pushes, in the code's order.
validateValidationRequest(request) ==
  (IF request.regulationId = "" THEN << "regulationId" >> ELSE << >>)
  \o (IF request.regulationVersion = << >> THEN << "regulationVersion" >> ELSE << >>)
  \o (IF ~request.hasContent THEN << "regulationContent" >>
      ELSE IF request.text = << >> THEN << "regulationContent.text" >>
      ELSE << >>)
  \o (IF request.validationLevel # Undefined /\ request.validationLevel \notin {1, 2, 3}
      THEN << "validationLevel" >> ELSE << >>)
  \o (IF request.requireCertainty # Undefined
         /\ request.requireCertainty \notin {1, 2, 3, 4, 5}
      THEN << "options.requireCertainty" >> ELSE << >>)
  \o (IF request.regulationVersion # << >>
         /\ ~isValidSemanticVersion(request.regulationVersion)
      THEN << "regulationVersion" >> ELSE << >>)

\* validateRequest(body, 'validation').isValid
RequestIsValid(request) == validateValidationRequest(request) = << >>

\* validateRequest(body, 'validation') for a body that is an object.
validateRequest(request) ==
  [isValid |-> Len(validateValidationRequest(request)) = 0,
   errors |-> validateValidationRequest(request)]

\* const { validationLevel = 1, options = {} } = body
RequestedLevel(request) ==
  IF request.validationLevel = Undefined THEN DefaultValidationLevel
  ELSE request.validationLevel

\* ------------------------------------------------------------------ router
\* A switch that takes the highest registered validator whatever the level.
SelectValidatorHighest(validationLevel, arns) ==
  IF 3 \in arns THEN 3 ELSE IF 2 \in arns THEN 2 ELSE IF 1 \in arns THEN 1 ELSE 0

\* A switch without fallback: each level uses its own validator only.
SelectValidatorExactOnly(validationLevel, arns) ==
  IF validationLevel \in { 1, 2, 3 } /\ validationLevel \in arns THEN validationLevel
  ELSE IF validationLevel \notin { 1, 2, 3 } /\ 1 \in arns THEN 1
  ELSE 0

\* The switch of routeToValidator: the ARN chosen for a level, 0 when unset.
SelectValidator(validationLevel, arns) ==
  LET l1 == IF 1 \in arns THEN 1 ELSE 0
      l2 == IF 2 \in arns THEN 2 ELSE 0
      l3 == IF 3 \in arns THEN 3 ELSE 0
  IN  CASE validationLevel = 1 -> l1
        [] validationLevel = 2 -> (IF l2 # 0 THEN l2 ELSE l1)
        [] validationLevel = 3 -> (IF l3 # 0 THEN l3 ELSE IF l2 # 0 THEN l2 ELSE l1)
        [] OTHER -> l1

\* A validation result; isNull marks the JSON value null and isFalse the JSON
\* value false, whose properties all read as undefined.
NullResult ==
  [isNull |-> TRUE, isFalse |-> FALSE, isValid |-> FALSE, certaintyLevel |-> 0, validationLevel |-> 0,
   overrideReason |-> "none", evidence |-> "none"]

Result(isValid, certaintyLevel, validationLevel, evidence) ==
  [isNull |-> FALSE, isFalse |-> FALSE, isValid |-> isValid,
   certaintyLevel |-> certaintyLevel,
   validationLevel |-> validationLevel, overrideReason |-> "none",
   evidence |-> evidence]

FalseResult ==
  [Result(FALSE, Undefined, Undefined, "none") EXCEPT !.isFalse = TRUE]

\* performBasicValidation reporting a fallback judgment with high certainty.
performBasicValidationConfident(text) ==
  Result(Len(text) > 0, IF Len(text) > 0 THEN AttestationThreshold ELSE BasicCertaintyInvalid,
         BasicValidationLevel,
         [textExists |-> Len(text) > 0, contentLength |-> Len(text)])

performBasicValidation(text) ==
  LET isValid == Len(text) > 0
  IN  Result(isValid,
             IF isValid THEN BasicCertaintyValid ELSE BasicCertaintyInvalid,
             BasicValidationLevel,
             [textExists |-> Len(text) > 0, contentLength |-> Len(text)])

\* A catch block that rethrows the invocation error.
InvokeFailedRethrow(arn, text) ==
  [retry |-> 0, threw |-> TRUE, result |-> NullResult]

\* A catch block that retries with the validator one level below.
InvokeFailedRetryLower(arn, text) ==
  [retry |-> IF arn > 1 THEN arn - 1 ELSE 0, threw |-> FALSE,
   result |-> performBasicValidation(text)]

\* The catch block of routeToValidator: what a failed invocation of validator
\* `arn` leads to.  retry is the ARN invoked next (0: none), threw says whether
\* the error leaves routeToValidator.
InvokeFailed(arn, text) ==
  [retry |-> 0, threw |-> FALSE, result |-> performBasicValidation(text)]

\* -------------------------------------------------------------- classifier
\* A regulation row as the classifier reads it.  Of the title it reads what
\* its three regular expressions find (complexLanguage, numeric, technical)
\* and title.length.
Max(a, b) == IF a >= b THEN a ELSE b
Min(a, b) == IF a <= b THEN a ELSE b

\* Math.round of the non-negative rational tenths / 10.
RoundTenths(tenths) == (tenths + 5) \div 10

analyzeComplexity(regulation) ==
  LET title == regulation.title
      contentSize == IF title.length > 100 THEN "large"
                     ELSE IF title.length > 50 THEN "medium" ELSE "small"
  IN  [textComplexity |->
         (IF title.complexLanguage THEN 20 ELSE 0)
         + (IF title.numeric THEN 20 ELSE 0)
         + (IF title.technical THEN 20 ELSE 0)
         + (IF contentSize = "large" THEN 30 ELSE IF contentSize = "medium" THEN 15 ELSE 0)
         + (IF regulation.category = "Financial" THEN 20
            ELSE IF regulation.category = "Policy" THEN 15 ELSE 10),
       contentSize |-> IF contentSize = "large" THEN 100
                       ELSE IF contentSize = "medium" THEN 50 ELSE 25]

analyzeChangeFrequency(regulation) ==
  IF regulation.category \in { "Technology", "Financial", "Healthcare", "Cybersecurity" }
  THEN 75
  ELSE IF regulation.category \in { "Academic", "Policy", "Admissions", "Student" }
  THEN 50
  ELSE 25

analyzeStructure(regulation) ==
  IF regulation.jurisdiction = "Federal" THEN 80
  ELSE IF regulation.jurisdiction = "State" THEN 60
  ELSE IF regulation.jurisdiction = "Accreditation" THEN 70
  ELSE 40

\* The weighted sum with weights 0.3, 0.2, 0.3, 0.2, rounded and clamped.  The
\* factors are integers, so ten times the sum is the integer below; on every
\* combination of factor values the double-precision sum rounds to the same
\* integer as the exact one.
calculateComplexityScore(complexityFactors, changeFrequency, structuralComplexity) ==
  Min(100, Max(0, RoundTenths(3 * complexityFactors.textComplexity
                              + 2 * complexityFactors.contentSize
                              + 3 * changeFrequency
                              + 2 * structuralComplexity)))

\* Level bands that count the scores 30 and 70 to the lower band.
DeterminedLevelInclusive(complexityScore) ==
  IF complexityScore <= 30 THEN 1 ELSE IF complexityScore <= 70 THEN 2 ELSE 3

\* Lines 238-245 of the classifier.
DeterminedLevel(complexityScore) ==
  IF complexityScore < 30 THEN 1 ELSE IF complexityScore < 70 THEN 2 ELSE 3

classifyRegulation(regulation, requestedLevel) ==
  LET requested == IF requestedLevel = Undefined THEN DefaultValidationLevel
                   ELSE requestedLevel
      complexityFactors == analyzeComplexity(regulation)
      changeFrequency == analyzeChangeFrequency(regulation)
      structuralComplexity == analyzeStructure(regulation)
      complexityScore == calculateComplexityScore(complexityFactors, changeFrequency,
                                                  structuralComplexity)
      validationLevel == Max(requested, DeterminedLevel(complexityScore))
  IN  [validationLevel |-> validationLevel,
       complexityScore |-> complexityScore,
       factors |-> [textComplexity |-> complexityFactors.textComplexity,
                    contentSize |-> complexityFactors.contentSize,
                    changeFrequency |-> changeFrequency,
                    structuralComplexity |-> structuralComplexity],
       validatorType |-> IF validationLevel = 1 THEN "text"
                         ELSE IF validationLevel = 2 THEN "pattern" ELSE "context"]

\* ---------------------------------------------------------------- database
\* getDbConnection on the cached (dbPool, dbConfig): whether it returns a
\* client, and the cache it leaves behind.  secretOk: getSecretValue answers;
\* testOk: the connection test (connect, SELECT NOW()) succeeds.
getDbConnection(pool, config, secretOk, testOk) ==
  IF pool THEN [ok |-> TRUE, dbPool |-> pool, dbConfig |-> config]
  ELSE IF config THEN [ok |-> TRUE, dbPool |-> TRUE, dbConfig |-> config]
  ELSE IF ~secretOk THEN [ok |-> FALSE, dbPool |-> pool, dbConfig |-> config]
  ELSE [ok |-> testOk, dbPool |-> TRUE, dbConfig |-> TRUE]

\* ------------------------------------------------------------------- audit
createAuditEventViaService(svcOk) ==
  [threw |-> ~svcOk, logged |-> svcOk]

\* createAuditEventDirectly without its catch block: a failed write is thrown.
createAuditEventDirectlyThrowing(pool, config, secretOk, testOk, writeOk) ==
  [threw |-> ~(getDbConnection(pool, config, secretOk, testOk).ok /\ writeOk),
   logged |-> getDbConnection(pool, config, secretOk, testOk).ok /\ writeOk,
   sink |-> "db",
   dbPool |-> getDbConnection(pool, config, secretOk, testOk).dbPool,
   dbConfig |-> getDbConnection(pool, config, secretOk, testOk).dbConfig]

createAuditEventDirectly(pool, config, secretOk, testOk, writeOk) ==
  LET db == getDbConnection(pool, config, secretOk, testOk)
  IN  [threw |-> FALSE, logged |-> db.ok /\ writeOk, sink |-> "db",
       dbPool |-> db.dbPool, dbConfig |-> db.dbConfig]

\* A createAuditEvent that writes to the database after the audit service as
\* well, whether or not the service took the event.
createAuditEventBothSinks(arn, pool, config, svcOk, secretOk, testOk, writeOk) ==
  LET direct == createAuditEventDirectly(pool, config, secretOk, testOk, writeOk)
  IN  [threw |-> direct.threw,
       logged |-> (arn /\ createAuditEventViaService(svcOk).logged) \/ direct.logged,
       sink |-> direct.sink, dbPool |-> direct.dbPool, dbConfig |-> direct.dbConfig,
       serviceCalls |-> IF arn THEN 1 ELSE 0, directCalls |-> 1]

\* createAuditEvent: arn says whether AUDIT_LOG_ARN is set.  serviceCalls and
\* directCalls count its calls of createAuditEventViaService and of
\* createAuditEventDirectly.
createAuditEvent(arn, pool, config, svcOk, secretOk, testOk, writeOk) ==
  LET direct == createAuditEventDirectly(pool, config, secretOk, testOk, writeOk)
  IN  IF arn /\ ~createAuditEventViaService(svcOk).threw
      THEN [threw |-> FALSE, logged |-> createAuditEventViaService(svcOk).logged,
            sink |-> "service", dbPool |-> pool, dbConfig |-> config,
            serviceCalls |-> 1, directCalls |-> 0]
      ELSE [threw |-> direct.threw, logged |-> direct.logged, sink |-> direct.sink,
            dbPool |-> direct.dbPool, dbConfig |-> direct.dbConfig,
            serviceCalls |-> IF arn THEN 1 ELSE 0, directCalls |-> 1]

\* ------------------------------------------------------------ orchestrator
\* The attestation test without its isValid conjunct.
AttestationDueIgnoringValidity(validationResponse) ==
  validationResponse.certaintyLevel >= AttestationThreshold

\* if (validationResponse.isValid && validationResponse.certaintyLevel >= 4)
AttestationDue(validationResponse) ==
  validationResponse.isValid
  /\ validationResponse.certaintyLevel >= AttestationThreshold

\* Response bodies.  JSON.stringify followed by JSON.parse leaves these plain
\* values (booleans, numbers, strings) as they are.
SuccessBody(request, validationResponse, versionStatus, certificate) ==
  [error |-> "none", message |-> "none", regulationId |-> request.regulationId,
   validationResult |-> validationResponse, versionStatus |-> versionStatus,
   attestationCertificate |-> certificate]

ErrorBody(code) ==
  [error |-> code, message |-> "none", regulationId |-> "none",
   validationResult |-> NullResult, versionStatus |-> FALSE,
   attestationCertificate |-> FALSE]

NoResponse == [statusCode |-> 0, body |-> ErrorBody("none")]

\* A map callback without its catch block: the item's promise rejects.
ItemCatchRethrow(regulationId, message) ==
  [rejected |-> TRUE, value |-> ErrorBody("none")]

\* The catch block of the batch's map callback: the value the item's promise
\* settles with when handleValidationRequest threw.
ItemCatch(regulationId, message) ==
  [rejected |-> FALSE,
   value |-> [error |-> "VALIDATION_FAILED", message |-> message,
              regulationId |-> regulationId, validationResult |-> NullResult,
              versionStatus |-> FALSE, attestationCertificate |-> FALSE]]

\* A slot of Promise.all that no promise has filled yet.
Pending == ErrorBody("pending")

\* A join that files each value in the first slot still pending, that is, in
\* completion order.
RECURSIVE FirstPending(_, _)
FirstPending(slots, k) ==
  IF k >= Len(slots) \/ slots[k] = Pending THEN k ELSE FirstPending(slots, k + 1)

StoreResultInCompletionOrder(slots, i, value) ==
  [slots EXCEPT ![FirstPending(slots, 1)] = value]

\* Promise.all: the value of the i-th promise lands in the i-th slot.
StoreResult(slots, i, value) ==
  [slots EXCEPT ![i] = value]

\* ------------------------------------------------------------------- state
VARIABLES
  entry,        \* what was invoked: "validate", "batch" (through handler) or
                \* "route" (routeToValidator called directly)
  pools,        \* the Pool objects constructed so far, each by the caller
                \* that ran `new Pool`; tracked where getDbConnection is
                \* stepped through await by await
  registered,   \* the levels n whose LEVELn_VALIDATOR_ARN is set
  auditArn,     \* whether AUDIT_LOG_ARN is set
  dbPool,       \* the module-level dbPool is non-null
  dbConfig,     \* the module-level dbConfig is non-null
  event,        \* the inbound event body
  task,         \* task[0]: the handler's own execution; task[i], i >= 1: the
                \* handleValidationRequest execution of the batch's i-th item
  results,      \* the slots of Promise.all(validationPromises)
  completed,    \* the items in the order in which their promises settled
  auditFailed,  \* some audit event so far reached no sink
  returned      \* what a directly called exported function returned

vars ==
  << entry, pools, registered, auditArn, dbPool, dbConfig, event, task, results,
     completed, auditFailed, returned >>

NoRequest ==
  [regulationId |-> "", regulationVersion |-> << >>, hasContent |-> FALSE,
   text |-> << >>, validationLevel |-> Undefined, requireCertainty |-> Undefined,
   checkVersionChanges |-> FALSE]

IdleTask ==
  [pc |-> "idle", request |-> NoRequest, validationResponse |-> NullResult,
   invokedArn |-> 0, remoteCalls |-> 0, remoteOutcome |-> "none",
   usedBasic |-> FALSE, versionCalls |-> 0, versionStatus |-> FALSE,
   certCalls |-> 0, certStored |-> FALSE, events |-> << >>, thrown |-> "none",
   storeCalls |-> 0, storeOutcome |-> "none", classifyCalls |-> 0,
   classifiedLevel |-> 0,
   response |-> NoResponse]

\* ------------------------------------------------------------ environment
\* What the remote validator may answer: a failure of the call, or a payload.
RemoteFailures == { "throw", "FunctionError", "unparseable" }

RemoteCertainties ==
  IF entry \in { "batch", "routeBatch" } THEN { 5 } ELSE { 0, 3, 4, 5, 6 }

RemotePayloads(arn) ==
  { Result(v, c, arn, "remote") : v \in BOOLEAN, c \in RemoteCertainties }
  \cup { NullResult, FalseResult }

\* What the remote validator may answer to one invocation.
RemoteAnswers(arn) ==
  { [out |-> f, payload |-> NullResult] : f \in RemoteFailures }
  \cup { [out |-> "ok", payload |-> p] : p \in RemotePayloads(arn) }

\* What one getDbConnection call may do, over the outcomes of the secret
\* retrieval and of the connection test.
DbOutcomes ==
  { getDbConnection(dbPool, dbConfig, secretOk, testOk) : secretOk, testOk \in BOOLEAN }

\* What one createAuditEvent call may do, over the outcomes of the audit
\* service, the secret retrieval, the connection test and the database write.
AuditOutcomes ==
  { createAuditEvent(auditArn, dbPool, dbConfig, svcOk, secretOk, testOk, writeOk) :
      svcOk, secretOk, testOk, writeOk \in BOOLEAN }

\* ------------------------------------------------- control flow primitives
\* An exception that is swallowed where it is thrown: the task never settles.
RaiseSwallowed(t, rec, message) == [rec EXCEPT !.pc = "hung", !.thrown = message]

\* A handler without its try/catch: the exception of task 0 leaves it.
RaiseUncaught(t, rec, message) ==
  IF t = 0 THEN [rec EXCEPT !.pc = "raised", !.thrown = message]
  ELSE IF ItemCatch(rec.request.regulationId, message).rejected
       THEN [rec EXCEPT !.pc = "rejected", !.thrown = message]
       ELSE [rec EXCEPT !.pc = "done", !.thrown = message]

\* An exception leaving handleValidationRequest (or the batch handler): the
\* handler's catch block takes it for task 0, the map callback's catch block
\* for a batch item.
Raise(t, rec, message) ==
  IF entry \in { "route", "routeBatch" } THEN [rec EXCEPT !.pc = "raised", !.thrown = message]
  ELSE IF t = 0 THEN [rec EXCEPT !.pc = "caught", !.thrown = message]
  ELSE IF ItemCatch(rec.request.regulationId, message).rejected
       THEN [rec EXCEPT !.pc = "rejected", !.thrown = message]
       ELSE [rec EXCEPT !.pc = "done", !.thrown = message]

\* return { statusCode, headers, body }
Return(rec, statusCode, body) ==
  [rec EXCEPT !.pc = "done", !.response = [statusCode |-> statusCode, body |-> body]]

\* What the map callback's promise of an item settles with.
SettledValue(rec) ==
  IF rec.thrown # "none" THEN ItemCatch(rec.request.regulationId, rec.thrown).value
  ELSE rec.response.body

\* Lines 604-617 after routing and the version check: attest or go on.
AttestOrComplete(t, rec) ==
  IF rec.validationResponse.isNull THEN Raise(t, rec, "TypeError")
  ELSE IF AttestationDue(rec.validationResponse)
       THEN [rec EXCEPT !.pc = "certificate"]
       ELSE [rec EXCEPT !.pc = "auditCompleted"]

\* A continuation that calls the version service whatever the options say.
AfterRouteAlwaysVersion(t, rec) ==
  IF entry \in { "route", "routeBatch" } THEN [rec EXCEPT !.pc = "returned"]
  ELSE [rec EXCEPT !.pc = "versionCall", !.versionCalls = @ + 1]

\* What follows the return of routeToValidator.
AfterRoute(t, rec) ==
  IF entry \in { "route", "routeBatch" } THEN [rec EXCEPT !.pc = "returned"]
  ELSE IF rec.request.checkVersionChanges
       THEN [rec EXCEPT !.pc = "versionCall", !.versionCalls = @ + 1]
       ELSE AttestOrComplete(t, rec)

\* const contentText = regulationContent.text || '' throws a TypeError when
\* the caller passed no regulationContent.
BasicValidationThrows(request) == ~request.hasContent

\* A handler that hands the classification's level to the router.
RoutedLevelClassified(rec) ==
  IF rec.classifiedLevel # 0 THEN rec.classifiedLevel ELSE RequestedLevel(rec.request)

\* The validationLevel that handleValidationRequest hands to routeToValidator
\* (line 561): the request's own, by default 1; of the classification the
\* router reads nothing.
RoutedLevel(rec) == RequestedLevel(rec.request)

\* routeToValidator up to its first await.
RouteCall(t, rec) ==
  LET validatorArn == SelectValidator(RoutedLevel(rec), registered)
  IN  IF validatorArn = 0
      THEN IF BasicValidationThrows(rec.request)
           THEN Raise(t, [rec EXCEPT !.usedBasic = TRUE], "TypeError")
           ELSE AfterRoute(t, [rec EXCEPT
                                 !.validationResponse = performBasicValidation(rec.request.text),
                                 !.usedBasic = TRUE])
      ELSE [rec EXCEPT !.pc = "invoking", !.invokedArn = validatorArn,
                       !.remoteCalls = @ + 1]

AuditEvent(eventType, metadata) ==
  [eventType |-> eventType, metadata |-> metadata]

\* The task's step settles its promise: Promise.all records the value.
Settle(t) ==
  IF t # 0 /\ task'[t].pc = "done" /\ task[t].pc # "done"
  THEN /\ results' = StoreResult(results, t, SettledValue(task'[t]))
       /\ completed' = Append(completed, t)
  ELSE UNCHANGED << results, completed >>

\* await createAuditEvent(ev) by task t, continuing with record `next`.
Emit(t, ev, next) ==
  \E a \in AuditOutcomes :
    LET rec == [task[t] EXCEPT !.events = Append(@, ev)]
    IN  /\ dbPool' = a.dbPool
        /\ dbConfig' = a.dbConfig
        /\ auditFailed' = (auditFailed \/ ~a.logged)
        /\ task' = [task EXCEPT ![t] =
                      IF a.threw THEN Raise(t, rec, "AuditWriteError")
                      ELSE [next EXCEPT !.events = rec.events]]
        /\ Settle(t)
        /\ UNCHANGED << entry, pools, registered, auditArn, event, returned >>

\* ------------------------------------------------ handleValidationRequest
\* Lines 498-535: parse the body, validate its shape, emit validation.requested.
ReceiveRequest(t) ==
  /\ task[t].pc = "start"
  /\ IF t = 0 /\ ~event.parseable
     THEN /\ task' = [task EXCEPT ![t] = Raise(t, task[t], "SyntaxError")]
          /\ UNCHANGED << dbPool, dbConfig, auditFailed, results, completed,
                          entry, pools, registered, auditArn, event, returned >>
     ELSE IF ~RequestIsValid(task[t].request)
     THEN /\ task' = [task EXCEPT ![t] = Return(task[t], 400, ErrorBody("INVALID_REQUEST"))]
          /\ Settle(t)
          /\ UNCHANGED << dbPool, dbConfig, auditFailed,
                          entry, pools, registered, auditArn, event, returned >>
     ELSE Emit(t, AuditEvent("validation.requested",
                             [validationLevel |-> RequestedLevel(task[t].request)]),
               [task[t] EXCEPT !.pc = "fetch"])

\* The regulation rows the store may hold for the requested id: one that the
\* classifier scores 24 (level 1) and one that it scores 92 (level 3).  The
\* items of a batch are all given the first.
PlainRegulation ==
  [title |-> [complexLanguage |-> FALSE, numeric |-> FALSE, technical |-> FALSE,
              length |-> 20],
   category |-> "Other", jurisdiction |-> "Local"]

DenseRegulation ==
  [title |-> [complexLanguage |-> TRUE, numeric |-> TRUE, technical |-> TRUE,
              length |-> 101],
   category |-> "Financial", jurisdiction |-> "Federal"]

StoredRegulations ==
  IF entry = "validate" THEN { PlainRegulation, DenseRegulation }
  ELSE { PlainRegulation }

\* A not-found test that lets every answer of the store through.
RegulationMissingNever(outcome) == FALSE

\* if (!regulation)
RegulationMissing(outcome) == outcome = "notFound"

\* Lines 537-565: getDbConnection, db.getRegulation, classifyRegulation (pure,
\* its result is handed to the router, which does not read it) and
\* routeToValidator up to its first await.
FetchRegulation(t) ==
  /\ task[t].pc = "fetch"
  /\ \E db \in DbOutcomes, outcome \in { "found", "notFound", "queryError" },
        regulation \in StoredRegulations :
           /\ dbPool' = db.dbPool
           /\ dbConfig' = db.dbConfig
           /\ task' = [task EXCEPT ![t] =
                 LET rec == [task[t] EXCEPT
                               !.storeCalls = @ + 1,
                               !.storeOutcome = IF db.ok THEN outcome ELSE "noConnection"]
                 IN  IF ~db.ok THEN Raise(t, rec, "Database connection failed")
                     ELSE IF outcome = "queryError" THEN Raise(t, rec, "QueryError")
                     ELSE IF RegulationMissing(outcome)
                          THEN Return(rec, 404, ErrorBody("REGULATION_NOT_FOUND"))
                          ELSE RouteCall(t, [rec EXCEPT
                                 !.classifyCalls = @ + 1,
                                 !.classifiedLevel =
                                   classifyRegulation(regulation,
                                                      RequestedLevel(rec.request)).validationLevel])]
  /\ Settle(t)
  /\ UNCHANGED << entry, pools, registered, auditArn, event, returned, auditFailed >>

\* Lines 75-95 of the router: the answer of lambda.invoke on the validator.
ValidatorReturns(t) ==
  /\ task[t].pc = "invoking"
  /\ \E answer \in RemoteAnswers(task[t].invokedArn) :
       LET rec == [task[t] EXCEPT !.remoteOutcome = answer.out]
           c == InvokeFailed(rec.invokedArn, rec.request.text)
       IN  task' = [task EXCEPT ![t] =
             IF answer.out = "ok"
             THEN AfterRoute(t, [rec EXCEPT !.validationResponse = answer.payload])
             ELSE IF c.threw THEN Raise(t, rec, "ValidatorUnavailableError")
             ELSE IF c.retry # 0
                  THEN [rec EXCEPT !.invokedArn = c.retry, !.remoteCalls = @ + 1]
             ELSE IF BasicValidationThrows(rec.request)
                  THEN Raise(t, [rec EXCEPT !.usedBasic = TRUE], "TypeError")
                  ELSE AfterRoute(t, [rec EXCEPT !.validationResponse = c.result,
                                                 !.usedBasic = TRUE])]
  /\ Settle(t)
  /\ UNCHANGED << entry, pools, registered, auditArn, event, returned, dbPool, dbConfig, auditFailed >>

\* Lines 582-583: the answer of the version service.
VersionReturns(t) ==
  /\ task[t].pc = "versionCall"
  /\ \E out \in { "throw", "status", "null" } :
       task' = [task EXCEPT ![t] =
         IF out = "throw" THEN Raise(t, task[t], "VersionServiceError")
         ELSE AttestOrComplete(t, [task[t] EXCEPT !.versionStatus = (out = "status")])]
  /\ Settle(t)
  /\ UNCHANGED << entry, pools, registered, auditArn, event, returned, dbPool, dbConfig, auditFailed >>

\* A generateCertificate that goes on to the audit event whether or not the
\* record was stored.
createCertificateUnchecked(t, rec, writeOk) ==
  [rec EXCEPT !.certCalls = @ + 1, !.certStored = writeOk, !.pc = "certificateIssued"]

\* await db.createCertificate(certificate), line 960: a rejection leaves
\* generateCertificate before its audit event.
createCertificate(t, rec, writeOk) ==
  IF ~writeOk
  THEN Raise(t, [rec EXCEPT !.certCalls = @ + 1], "CertificateStoreError")
  ELSE [rec EXCEPT !.certCalls = @ + 1, !.certStored = TRUE, !.pc = "certificateIssued"]

\* generateCertificate, lines 934-960: getDbConnection and db.createCertificate.
GenerateCertificate(t) ==
  /\ task[t].pc = "certificate"
  /\ \E db \in DbOutcomes, writeOk \in BOOLEAN :
           /\ dbPool' = db.dbPool
           /\ dbConfig' = db.dbConfig
           /\ task' = [task EXCEPT ![t] =
                 IF ~db.ok THEN Raise(t, task[t], "Database connection failed")
                 ELSE createCertificate(t, task[t], writeOk)]
  /\ Settle(t)
  /\ UNCHANGED << entry, pools, registered, auditArn, event, returned, auditFailed >>

\* generateCertificate, lines 962-976: the certificate.issued audit event.
EmitCertificateIssued(t) ==
  /\ task[t].pc = "certificateIssued"
  /\ Emit(t, AuditEvent("certificate.issued", [regulationId |-> task[t].request.regulationId]),
          [task[t] EXCEPT !.pc = "auditCompleted"])

\* Metadata that reports every completed validation as a valid one.
CompletedMetadataAlwaysValid(rec) ==
  [validationLevel |-> RequestedLevel(rec.request),
   isValid |-> TRUE,
   certaintyLevel |-> rec.validationResponse.certaintyLevel]

\* Lines 625-631: the metadata of the validation.completed audit event.
CompletedMetadata(rec) ==
  [validationLevel |-> RequestedLevel(rec.request),
   isValid |-> rec.validationResponse.isValid,
   certaintyLevel |-> rec.validationResponse.certaintyLevel]

\* Lines 619-638: the validation.completed audit event and the 200 response.
EmitCompleted(t) ==
  /\ task[t].pc = "auditCompleted"
  /\ Emit(t, AuditEvent("validation.completed", CompletedMetadata(task[t])),
          Return(task[t], 200,
                 SuccessBody(task[t].request, task[t].validationResponse,
                             task[t].versionStatus, task[t].certStored)))

\* ------------------------------------------------------------------ handler
\* The catch block of exports.handler: one request.error audit attempt inside
\* its own try/catch, then the 500 response.
HandlerCatch ==
  /\ task[0].pc = "caught"
  /\ \E a \in AuditOutcomes :
           /\ dbPool' = a.dbPool
           /\ dbConfig' = a.dbConfig
           /\ auditFailed' = (auditFailed \/ ~a.logged)
           /\ task' = [task EXCEPT ![0] =
                 Return([task[0] EXCEPT !.events =
                           Append(@, AuditEvent("request.error", [error |-> task[0].thrown]))],
                        500, ErrorBody("INTERNAL_ERROR"))]
  /\ UNCHANGED << entry, pools, registered, auditArn, event, returned, results, completed >>

\* ------------------------------------------- handleBatchValidationRequest
\* Batch size limit of validateBatchValidationRequest.
MaxBatchSize == 50

RECURSIVE ItemErrors(_, _)
ItemErrors(regulations, i) ==
  IF i > Len(regulations) THEN << >>
  ELSE validateValidationRequest(regulations[i]) \o ItemErrors(regulations, i + 1)

\* The error fields validateBatchValidationRequest pushes.
validateBatchValidationRequest(body) ==
  IF ~body.isArray THEN << "regulations" >>
  ELSE (IF Len(body.regulations) = 0 THEN << "regulations" >> ELSE << >>)
       \o (IF Len(body.regulations) > MaxBatchSize THEN << "regulations" >> ELSE << >>)
       \o ItemErrors(body.regulations, 1)

\* The individualRequest body the map callback builds for one regulation.
ItemRequest(regulation, body) ==
  [regulationId |-> regulation.regulationId,
   regulationVersion |-> regulation.regulationVersion,
   hasContent |-> regulation.hasContent,
   text |-> regulation.text,
   validationLevel |-> IF regulation.validationLevel \in { Undefined, 0 }
                       THEN DefaultValidationLevel ELSE regulation.validationLevel,
   requireCertainty |-> body.requireCertainty,
   checkVersionChanges |-> body.checkVersionChanges]

\* result.data && result.data.validationResult
HasValidationResult(result) ==
  /\ result.error = "none"
  /\ ~result.validationResult.isNull
  /\ ~result.validationResult.isFalse

\* A failure count that leaves out the items carrying only an error object.
IsFailureInvalidOnly(result) ==
  HasValidationResult(result) /\ ~result.validationResult.isValid

\* Lines 35-49: the items that failureCount++ runs for.
IsFailure(result) ==
  \/ HasValidationResult(result) /\ ~result.validationResult.isValid
  \/ ~HasValidationResult(result) /\ result.error # "none"

\* Lines 42-46: if (result.data.validationResult.certaintyLevel)
CountsCertainty(result) ==
  HasValidationResult(result) /\ result.validationResult.certaintyLevel \notin { Undefined, 0 }

RECURSIVE TotalCertainty(_, _)
TotalCertainty(slots, i) ==
  IF i > Len(slots) THEN 0
  ELSE (IF CountsCertainty(slots[i]) THEN slots[i].validationResult.certaintyLevel ELSE 0)
       + TotalCertainty(slots, i + 1)

\* Math.round of the non-negative rational numerator / denominator.
RoundRatio(numerator, denominator) ==
  (2 * numerator + denominator) \div (2 * denominator)

\* aggregateResults(results).summary.  averageCertainty is held in tenths (40
\* stands for 4.0): Math.round(x * 10) / 10 is the multiple of 0.1 nearest to
\* x.  successRate is Undefined where the code's summary has no such key.
aggregateResults(slots) ==
  LET n == Len(slots)
      successes == { i \in 1 .. n : HasValidationResult(slots[i])
                                    /\ slots[i].validationResult.isValid }
      failures == { i \in 1 .. n : IsFailure(slots[i]) }
      validCertaintyCount == Cardinality({ i \in 1 .. n : CountsCertainty(slots[i]) })
  IN  IF n = 0
      THEN [totalCount |-> 0, successCount |-> 0, failureCount |-> 0,
            averageCertainty |-> 0, successRate |-> Undefined]
      ELSE [totalCount |-> n, successCount |-> Cardinality(successes),
            failureCount |-> Cardinality(failures),
            averageCertainty |->
              IF validCertaintyCount > 0
              THEN RoundRatio(10 * TotalCertainty(slots, 1), validCertaintyCount)
              ELSE 0,
            successRate |-> RoundRatio(100 * Cardinality(successes), n)]

\* Lines 645-717: parse and validate the batch, emit validation.batch.requested,
\* then start every item (regulations.map runs each callback to its first await).
BatchReceive ==
  /\ task[0].pc = "batchStart"
  /\ IF ~event.parseable
     THEN /\ task' = [task EXCEPT ![0] = Raise(0, task[0], "SyntaxError")]
          /\ UNCHANGED << dbPool, dbConfig, auditFailed, results >>
     ELSE IF validateBatchValidationRequest(event) # << >>
     THEN /\ task' = [task EXCEPT ![0] = Return(task[0], 400, ErrorBody("INVALID_REQUEST"))]
          /\ UNCHANGED << dbPool, dbConfig, auditFailed, results >>
     ELSE \E a \in AuditOutcomes :
            LET rec == [task[0] EXCEPT !.events =
                          Append(@, AuditEvent("validation.batch.requested",
                                               [regulationCount |-> Len(event.regulations)]))]
            IN  /\ dbPool' = a.dbPool
                /\ dbConfig' = a.dbConfig
                /\ auditFailed' = (auditFailed \/ ~a.logged)
                /\ IF a.threw
                   THEN /\ task' = [task EXCEPT ![0] = Raise(0, rec, "AuditWriteError")]
                        /\ UNCHANGED results
                   ELSE /\ task' = [t \in Tasks |->
                              IF t = 0 THEN [rec EXCEPT !.pc = "joining"]
                              ELSE IF t <= Len(event.regulations)
                                   THEN [IdleTask EXCEPT
                                           !.pc = "start",
                                           !.request = ItemRequest(event.regulations[t], event)]
                                   ELSE task[t]]
                        /\ results' = [i \in 1 .. Len(event.regulations) |-> Pending]
  /\ UNCHANGED << entry, pools, registered, auditArn, event, returned, completed >>

\* A join that resumes as soon as one of the promises has fulfilled.
PromiseAllFulfilledAny(fulfilled) == \E i \in DOMAIN fulfilled : fulfilled[i]

\* await Promise.all(validationPromises) resumes with the values once every
\* promise has fulfilled.
PromiseAllFulfilled(fulfilled) == \A i \in DOMAIN fulfilled : fulfilled[i]

\* Lines 719-748: Promise.all has settled; aggregate, emit
\* validation.batch.completed, answer 200 with the results.
BatchJoin ==
  /\ task[0].pc = "joining"
  /\ \/ \E i \in 1 .. Len(event.regulations) : task[i].pc = "rejected"
     \/ PromiseAllFulfilled([i \in 1 .. Len(event.regulations) |-> task[i].pc = "done"])
  /\ IF \E i \in 1 .. Len(event.regulations) : task[i].pc = "rejected"
     THEN /\ task' = [task EXCEPT ![0] = Raise(0, task[0], "ItemRejected")]
          /\ UNCHANGED << entry, pools, registered, auditArn, event, returned, dbPool, dbConfig,
                          auditFailed, results, completed >>
     ELSE Emit(0, AuditEvent("validation.batch.completed",
                             [regulationCount |-> Len(event.regulations),
                              successCount |-> aggregateResults(results).successCount,
                              failureCount |-> aggregateResults(results).failureCount]),
               Return(task[0], 200, [error |-> "none", data |-> results]))

\* routeToValidator called directly (it is exported by the router module).
RouteDirect ==
  /\ task[0].pc = "route"
  /\ task' = [task EXCEPT ![0] = RouteCall(0, task[0])]
  /\ UNCHANGED << entry, pools, registered, auditArn, event, returned, dbPool, dbConfig,
                  auditFailed, results, completed >>

\* --------------------------------------------------------- specifications
ValidRequests ==
  [regulationId : { "R1" }, regulationVersion : { Version123 }, hasContent : { TRUE },
   text : { Text1 }, validationLevel : { Undefined, 1, 2, 3 },
   requireCertainty : { Undefined, 5 }, checkVersionChanges : BOOLEAN]

BaseRequest ==
  [regulationId |-> "R1", regulationVersion |-> Version123, hasContent |-> TRUE,
   text |-> Text1, validationLevel |-> Undefined, requireCertainty |-> Undefined,
   checkVersionChanges |-> FALSE]

InvalidRequests ==
  { [BaseRequest EXCEPT !.regulationId = ""],
    [BaseRequest EXCEPT !.regulationVersion = VersionShort],
    [BaseRequest EXCEPT !.regulationVersion = VersionMissing],
    [BaseRequest EXCEPT !.hasContent = FALSE],
    [BaseRequest EXCEPT !.text = Text0],
    [BaseRequest EXCEPT !.text = Text0, !.validationLevel = 1],
    [BaseRequest EXCEPT !.validationLevel = 4],
    [BaseRequest EXCEPT !.requireCertainty = 9] }

RouteRequests ==
  [regulationId : { "R1" }, regulationVersion : { Version123 }, hasContent : { TRUE },
   text : Texts, validationLevel : { Undefined, 1, 2, 3, 4 },
   requireCertainty : { Undefined }, checkVersionChanges : { FALSE }]

\* No exported function has been called directly.
NoReturn == [called |-> FALSE]

InitIdle ==
  /\ pools = << >>
  /\ results = << >>
  /\ completed = << >>
  /\ auditFailed = FALSE
  /\ returned = NoReturn

\* A single validation request through the handler, or a direct router call.
Init ==
  /\ InitIdle
  /\ registered \in SUBSET { 1, 2, 3 }
  /\ \/ /\ entry = "validate"
        /\ auditArn \in BOOLEAN
        /\ dbPool \in BOOLEAN
        /\ dbConfig = dbPool
        /\ \/ event \in [parseable : { TRUE }, request : ValidRequests \cup InvalidRequests]
           \/ event = [parseable |-> FALSE, request |-> NoRequest]
        /\ task = [t \in Tasks |->
                     IF t = 0 THEN [IdleTask EXCEPT !.pc = "start", !.request = event.request]
                     ELSE IdleTask]
     \/ /\ entry = "route"
        /\ auditArn = FALSE
        /\ dbPool = FALSE
        /\ dbConfig = FALSE
        /\ event \in [parseable : { TRUE }, request : RouteRequests]
        /\ task = [t \in Tasks |->
                     IF t = 0 THEN [IdleTask EXCEPT !.pc = "route", !.request = event.request]
                     ELSE IdleTask]

Next ==
  \/ ReceiveRequest(0)
  \/ FetchRegulation(0)
  \/ ValidatorReturns(0)
  \/ VersionReturns(0)
  \/ GenerateCertificate(0)
  \/ EmitCertificateIssued(0)
  \/ EmitCompleted(0)
  \/ HandlerCatch
  \/ RouteDirect

Spec == Init /\ [][Next]_vars

\* A batch request through the handler.
BatchRegulations(n) ==
  [i \in 1 .. n |->
     IF i % 2 = 1 THEN [BaseRequest EXCEPT !.regulationId = "R1"]
     ELSE [BaseRequest EXCEPT !.regulationId = "R2", !.validationLevel = 2]]

BatchBodies ==
  { [parseable |-> TRUE, isArray |-> TRUE, regulations |-> regs,
     requireCertainty |-> rc, checkVersionChanges |-> FALSE] :
      regs \in { BatchRegulations(n) : n \in 1 .. MaxBatch },
      rc \in { Undefined } }
  \cup
  { [parseable |-> FALSE, isArray |-> FALSE, regulations |-> << >>,
     requireCertainty |-> Undefined, checkVersionChanges |-> FALSE],
    [parseable |-> TRUE, isArray |-> FALSE, regulations |-> << >>,
     requireCertainty |-> Undefined, checkVersionChanges |-> FALSE],
    [parseable |-> TRUE, isArray |-> TRUE, regulations |-> << >>,
     requireCertainty |-> Undefined, checkVersionChanges |-> FALSE],
    [parseable |-> TRUE, isArray |-> TRUE,
     regulations |-> << [BaseRequest EXCEPT !.text = Text0] >>,
     requireCertainty |-> Undefined, checkVersionChanges |-> FALSE],
    [parseable |-> TRUE, isArray |-> TRUE,
     regulations |-> << BaseRequest, [BaseRequest EXCEPT !.regulationId = "R2",
                                                         !.text = Text0] >>,
     requireCertainty |-> Undefined, checkVersionChanges |-> FALSE],
    [parseable |-> TRUE, isArray |-> TRUE, regulations |-> << BaseRequest >>,
     requireCertainty |-> 9, checkVersionChanges |-> FALSE],
    [parseable |-> TRUE, isArray |-> TRUE, regulations |-> << BaseRequest >>,
     requireCertainty |-> Undefined, checkVersionChanges |-> TRUE] }

InitBatch ==
  /\ InitIdle
  /\ entry = "batch"
  /\ registered \in { { }, { 1 } }
  /\ auditArn \in BOOLEAN
  /\ dbPool \in BOOLEAN
  /\ dbConfig = dbPool
  /\ event \in BatchBodies
  /\ task = [t \in Tasks |-> IF t = 0 THEN [IdleTask EXCEPT !.pc = "batchStart"]
                             ELSE IdleTask]

ItemStep(t) ==
  \/ ReceiveRequest(t)
  \/ FetchRegulation(t)
  \/ ValidatorReturns(t)
  \/ VersionReturns(t)
  \/ GenerateCertificate(t)
  \/ EmitCertificateIssued(t)
  \/ EmitCompleted(t)

NextBatch ==
  \/ BatchReceive
  \/ \E t \in Items : ItemStep(t)
  \/ BatchJoin
  \/ HandlerCatch

SpecBatch == InitBatch /\ [][NextBatch]_vars

\* A single or a batch validation request through the handler.  Every pending
\* collaborator call eventually returns or fails and the event loop then runs
\* the continuation that awaits it, so the handler never stays put while one
\* of its steps can be taken.
InitLive ==
  \/ Init /\ entry = "validate"
  \/ InitBatch

NextLive ==
  \/ BatchReceive
  \/ \E t \in Tasks : ItemStep(t)
  \/ BatchJoin
  \/ HandlerCatch

SpecLive ==
  /\ InitLive
  /\ [][NextLive]_vars
  /\ WF_vars(NextLive)

\* ------------------------------------------------------- direct calls
\* A direct call of an exported function: its return value, or the error it
\* threw.
Returned(value) == [called |-> TRUE, threw |-> FALSE, value |-> value]
Threw(message) == [called |-> TRUE, threw |-> TRUE, value |-> message]

\* No request is in flight while an exported function is called directly.
InitLibrary ==
  /\ InitIdle
  /\ registered = { }
  /\ auditArn = FALSE
  /\ dbPool = FALSE
  /\ dbConfig = FALSE
  /\ task = [t \in Tasks |-> IdleTask]

LibraryUnchanged ==
  UNCHANGED << entry, pools, registered, auditArn, dbPool, dbConfig, event, task, results,
               completed, auditFailed >>

Titles ==
  [complexLanguage : BOOLEAN, numeric : BOOLEAN, technical : BOOLEAN,
   length : { 20, 50, 51, 100, 101 }]

Regulations ==
  [title : Titles,
   category : { "Financial", "Policy", "Technology", "Academic", "Other" },
   jurisdiction : { "Federal", "State", "Accreditation", "Local" }]

InitClassify ==
  /\ InitLibrary
  /\ entry = "classify"
  /\ event \in [regulation : Regulations, requestedLevel : { Undefined, 1, 2, 3 }]

ClassifyCall ==
  /\ entry = "classify"
  /\ ~returned.called
  /\ returned' = Returned(classifyRegulation(event.regulation, event.requestedLevel))
  /\ LibraryUnchanged

NextClassify == ClassifyCall

SpecClassify == InitClassify /\ [][NextClassify]_vars

\* ------------------------------------------------ mergeValidationResults
\* A validator result as mergeValidationResults reads it.  certaintyLevel,
\* validationLevel and validationTimestamp may be Undefined; evidence is the
\* list of Object.entries(result.evidence), hasEvidence says whether the
\* result has an evidence object at all.  An evidence value is written as
\* the JavaScript value it stands for: "true", "false", "0", "" (the empty
\* string) or another, non-empty string.  An evidence key is a name and the
\* list of the validator indices suffixed to it: [name |-> "match", suffix |->
\* << 2 >>] is the key match_validator2.
EvidenceKey(name) == [name |-> name, suffix |-> << >>]

\* `${key}_validator${index + 1}`
Suffixed(key, index) == [key EXCEPT !.suffix = Append(@, index)]

\* The truthiness of an evidence value.
Truthy(value) == value \notin { "false", "0", "" }

\* new Date() when mergeValidationResults runs; input timestamps are earlier.
Now == 9

\* One iteration of the inner forEach (lines 200-204) for validator `index`.
PutEvidence(merged, key, value, index) ==
  LET evidenceKey == IF key \in DOMAIN merged /\ Truthy(merged[key])
                     THEN Suffixed(key, index) ELSE key
  IN  [k \in DOMAIN merged \cup { evidenceKey } |->
         IF k = evidenceKey THEN value ELSE merged[k]]

RECURSIVE MergeEntries(_, _, _, _)
MergeEntries(merged, entries, j, index) ==
  IF j > Len(entries) THEN merged
  ELSE MergeEntries(PutEvidence(merged, entries[j].key, entries[j].value, index),
                    entries, j + 1, index)

\* The outer forEach (lines 198-206) from the i-th result on.
RECURSIVE MergeEvidence(_, _, _)
MergeEvidence(merged, list, i) ==
  IF i > Len(list) THEN merged
  ELSE MergeEvidence(IF list[i].hasEvidence
                     THEN MergeEntries(merged, list[i].evidence, 1, i)
                     ELSE merged,
                     list, i + 1)

\* value || 0
OrZero(value) == IF value = Undefined THEN 0 ELSE value

RECURSIVE FoldMin(_, _, _)
FoldMin(list, i, acc) ==
  IF i > Len(list) THEN acc
  ELSE FoldMin(list, i + 1, Min(acc, OrZero(list[i].certaintyLevel)))

RECURSIVE FoldMaxCertainty(_, _, _)
FoldMaxCertainty(list, i, acc) ==
  IF i > Len(list) THEN acc
  ELSE FoldMaxCertainty(list, i + 1, Max(acc, OrZero(list[i].certaintyLevel)))

\* A merge that takes the certainty of the most certain validator.
MinCertaintyOptimistic(list) ==
  FoldMaxCertainty(list, 2, OrZero(list[1].certaintyLevel))

\* Math.min(...results.map(result => result.certaintyLevel || 0))
MinCertainty(list) == FoldMin(list, 2, OrZero(list[1].certaintyLevel))

RECURSIVE FoldMaxLevel(_, _, _)
FoldMaxLevel(list, i, acc) ==
  IF i > Len(list) THEN acc
  ELSE FoldMaxLevel(list, i + 1, Max(acc, OrZero(list[i].validationLevel)))

\* Math.max(...results.map(result => result.validationLevel || 0))
MaxValidationLevel(list) == FoldMaxLevel(list, 2, OrZero(list[1].validationLevel))

RECURSIVE FoldLatest(_, _, _)
FoldLatest(list, i, acc) ==
  IF i > Len(list) THEN acc
  ELSE FoldLatest(list, i + 1,
                  IF list[i].validationTimestamp = Undefined THEN acc
                  ELSE Max(acc, list[i].validationTimestamp))

\* The latest of the input timestamps, now when no input has one.
LatestTimestamp(list) ==
  IF FoldLatest(list, 1, Undefined) = Undefined THEN Now
  ELSE FoldLatest(list, 1, Undefined)

\* The sentinel of lines 160-166.
EmptyMerge ==
  [isValid |-> FALSE, certaintyLevel |-> 0, validationTimestamp |-> Now,
   validationLevel |-> 0, evidence |-> << >>]

\* A guard that tests the length only.
NoResultsLengthOnly(missing, list) == ~missing /\ Len(list) = 0

\* !results || results.length === 0
NoResults(missing, list) == missing \/ Len(list) = 0

\* A merge that returns the first result whenever there is one.
mergeValidationResultsFirstOnly(missing, list) ==
  IF NoResults(missing, list) THEN Returned(EmptyMerge)
  ELSE IF missing THEN Threw("TypeError")
  ELSE Returned(list[1])

\* mergeValidationResults(results); missing: the argument is undefined or null.
mergeValidationResults(missing, list) ==
  IF NoResults(missing, list) THEN Returned(EmptyMerge)
  ELSE IF missing THEN Threw("TypeError")
  ELSE IF Len(list) = 1 THEN Returned(list[1])
  ELSE
    LET isValid == \A i \in 1 .. Len(list) : list[i].isValid
        evidence == MergeEvidence(<< >>, list, 1)
        summed == [k \in DOMAIN evidence
                        \cup { EvidenceKey("validatorCount"),
                               EvidenceKey("validatorsAgreed") } |->
                     IF k = EvidenceKey("validatorCount") THEN ToString(Len(list))
                     ELSE IF k = EvidenceKey("validatorsAgreed")
                          THEN (IF isValid THEN "true" ELSE "false")
                          ELSE evidence[k]]
    IN  Returned([isValid |-> isValid,
                  certaintyLevel |-> MinCertainty(list),
                  validationTimestamp |-> LatestTimestamp(list),
                  validationLevel |-> MaxValidationLevel(list),
                  evidence |-> summed,
                  individualResults |->
                    [i \in 1 .. Len(list) |->
                       [isValid |-> list[i].isValid,
                        certaintyLevel |-> list[i].certaintyLevel,
                        validationLevel |-> list[i].validationLevel]]])

ValidatorResult(isValid, certaintyLevel, validationLevel, timestamp, hasEvidence, evidence) ==
  [isValid |-> isValid, certaintyLevel |-> certaintyLevel,
   validationLevel |-> validationLevel, validationTimestamp |-> timestamp,
   hasEvidence |-> hasEvidence, evidence |-> evidence]

Entry(key, value) == [key |-> key, value |-> value]

\* The validator results the merge is tried on.
MergeInputs ==
  { ValidatorResult(TRUE, 5, 3, 2, TRUE, << Entry(EvidenceKey("match"), "true") >>),
    ValidatorResult(FALSE, 2, 1, 1, TRUE, << Entry(EvidenceKey("match"), "false") >>),
    ValidatorResult(TRUE, 4, 2, Undefined, TRUE,
                    << Entry(EvidenceKey("match"), "0"), Entry(EvidenceKey("score"), "x") >>),
    ValidatorResult(TRUE, 3, 2, 1, TRUE, << Entry(EvidenceKey("score"), "") >>),
    ValidatorResult(TRUE, 5, 1, 2, TRUE,
                    << Entry(Suffixed(EvidenceKey("match"), 2), "y"),
                       Entry(EvidenceKey("match"), "z") >>),
    ValidatorResult(FALSE, 1, 1, Undefined, TRUE, << >>),
    ValidatorResult(TRUE, Undefined, Undefined, Undefined, FALSE, << >>),
    ValidatorResult(FALSE, 0, 0, 1, TRUE, << Entry(EvidenceKey("validatorCount"), "7") >>) }

\* All lists over `set` of length `n`.
RECURSIVE ListsOf(_, _)
ListsOf(set, n) ==
  IF n = 0 THEN { << >> }
  ELSE { Append(list, x) : list \in ListsOf(set, n - 1), x \in set }

InitMerge ==
  /\ InitLibrary
  /\ entry = "merge"
  /\ \/ event = [missing |-> TRUE, results |-> << >>]
     \/ \E n \in 0 .. MaxResults :
          event \in [missing : { FALSE }, results : ListsOf(MergeInputs, n)]

MergeCall ==
  /\ entry = "merge"
  /\ ~returned.called
  /\ returned' = mergeValidationResults(event.missing, event.results)
  /\ LibraryUnchanged

NextMerge == MergeCall

SpecMerge == InitMerge /\ [][NextMerge]_vars

\* --------------------------------------------- concurrent getDbConnection
\* getDbConnection stepped through await by await, called by up to
\* event.callers callers of one execution context at once (the items of a
\* batch each call it).  pools[k] is the caller that constructed the k-th
\* Pool (Undefined: an earlier invocation); the module-level dbPool refers to
\* the last of them.  returned[t] is what caller t's call settled with.
Callers == { t \in Tasks : t < event.callers }

\* createDbClient(dbPool): a client backed by the pool dbPool refers to.
createDbClient(constructed) == [pool |-> Len(constructed)]

InitPool ==
  /\ entry = "pool"
  /\ registered = { }
  /\ auditArn = FALSE
  /\ results = << >>
  /\ completed = << >>
  /\ auditFailed = FALSE
  /\ dbPool \in BOOLEAN
  /\ dbConfig = dbPool
  /\ pools = IF dbPool THEN << Undefined >> ELSE << >>
  /\ event \in [callers : 1 .. MaxBatch + 1, dbPool : { dbPool }]
  /\ task = [t \in Tasks |-> IF t < event.callers THEN [IdleTask EXCEPT !.pc = "start"]
                             ELSE IdleTask]
  /\ returned = [t \in Callers |-> NoReturn]

PoolUnchanged ==
  UNCHANGED << entry, registered, auditArn, event, results, completed, auditFailed >>

\* Lines 21-35: the two cache tests, then the call of getSecretValue.
GetDbConnectionCall(t) ==
  /\ t \in Callers
  /\ task[t].pc = "start"
  /\ IF dbPool
     THEN /\ returned' = [returned EXCEPT ![t] = Returned(createDbClient(pools))]
          /\ task' = [task EXCEPT ![t].pc = "returned"]
          /\ UNCHANGED << dbPool, dbConfig, pools >>
     ELSE IF dbConfig
     THEN /\ pools' = Append(pools, t)
          /\ dbPool' = TRUE
          /\ returned' = [returned EXCEPT ![t] = Returned(createDbClient(pools'))]
          /\ task' = [task EXCEPT ![t].pc = "returned"]
          /\ UNCHANGED dbConfig
     ELSE /\ task' = [task EXCEPT ![t].pc = "secret"]
          /\ UNCHANGED << dbPool, dbConfig, pools, returned >>
  /\ PoolUnchanged

\* Lines 35-55: getSecretValue has answered; dbConfig and dbPool are assigned
\* and the connection test is started on the new pool.
SecretReturns(t) ==
  /\ t \in Callers
  /\ task[t].pc = "secret"
  /\ \E secretOk \in BOOLEAN :
       IF secretOk
       THEN /\ dbConfig' = TRUE
            /\ pools' = Append(pools, t)
            /\ dbPool' = TRUE
            /\ task' = [task EXCEPT ![t].pc = "testing"]
            /\ UNCHANGED returned
       ELSE /\ task' = [task EXCEPT ![t].pc = "raised",
                                    ![t].thrown = "Database connection failed"]
            /\ returned' = [returned EXCEPT ![t] = Threw("Database connection failed")]
            /\ UNCHANGED << dbPool, dbConfig, pools >>
  /\ PoolUnchanged

\* Lines 55-66: the connection test has ended; return createDbClient(dbPool)
\* or throw.
TestReturns(t) ==
  /\ t \in Callers
  /\ task[t].pc = "testing"
  /\ \E testOk \in BOOLEAN :
       IF testOk
       THEN /\ returned' = [returned EXCEPT ![t] = Returned(createDbClient(pools))]
            /\ task' = [task EXCEPT ![t].pc = "returned"]
       ELSE /\ task' = [task EXCEPT ![t].pc = "raised",
                                    ![t].thrown = "Database connection failed"]
            /\ returned' = [returned EXCEPT ![t] = Threw("Database connection failed")]
  /\ UNCHANGED << dbPool, dbConfig, pools >>
  /\ PoolUnchanged

NextPool ==
  \E t \in Tasks :
    \/ GetDbConnectionCall(t)
    \/ SecretReturns(t)
    \/ TestReturns(t)

SpecPool == InitPool /\ [][NextPool]_vars

\* ------------------------------------------------------- createAuditEvent
\* createAuditEvent called once, over what the audit service, the secret
\* retrieval, the connection test and the database write do.
InitAudit ==
  /\ InitIdle
  /\ entry = "audit"
  /\ registered = { }
  /\ auditArn \in BOOLEAN
  /\ dbPool \in BOOLEAN
  /\ dbConfig = dbPool
  /\ event \in [svcOk : BOOLEAN, secretOk : BOOLEAN, testOk : BOOLEAN, writeOk : BOOLEAN]
  /\ task = [t \in Tasks |-> IdleTask]

AuditCall ==
  /\ entry = "audit"
  /\ ~returned.called
  /\ LET a == createAuditEvent(auditArn, dbPool, dbConfig, event.svcOk, event.secretOk,
                               event.testOk, event.writeOk)
     IN  /\ returned' = Returned(a)
         /\ dbPool' = a.dbPool
         /\ dbConfig' = a.dbConfig
  /\ UNCHANGED << entry, pools, registered, auditArn, event, task, results, completed,
                  auditFailed >>

NextAudit == AuditCall

SpecAudit == InitAudit /\ [][NextAudit]_vars

\* ---------------------------------------------------- routeBatchValidation
\* routeBatchValidation called directly (it is exported by the router module)
\* on a batch of routing parameters; an item may come without
\* regulationContent, the router does not check its parameters.
RouteItems ==
  { BaseRequest,
    [BaseRequest EXCEPT !.regulationId = "R2", !.hasContent = FALSE, !.text = Text0] }

InitRouteBatch ==
  /\ InitIdle
  /\ entry = "routeBatch"
  /\ registered \in { { }, { 1 } }
  /\ auditArn = FALSE
  /\ dbPool = FALSE
  /\ dbConfig = FALSE
  /\ \E n \in 1 .. MaxBatch :
       event \in [parseable : { TRUE }, regulations : ListsOf(RouteItems, n)]
  /\ task = [t \in Tasks |-> IF t = 0 THEN [IdleTask EXCEPT !.pc = "routeBatchStart"]
                             ELSE IdleTask]

\* batch.map(item => routeToValidator(item)): every call runs to its first
\* await, or to the return or the exception that settles its promise.
RouteBatchStart ==
  /\ task[0].pc = "routeBatchStart"
  /\ task' = [t \in Tasks |->
                IF t = 0 THEN [task[0] EXCEPT !.pc = "joining"]
                ELSE IF t <= Len(event.regulations)
                     THEN RouteCall(t, [IdleTask EXCEPT !.request = event.regulations[t]])
                     ELSE task[t]]
  /\ UNCHANGED << entry, pools, registered, auditArn, event, returned, dbPool, dbConfig,
                  auditFailed, results, completed >>

\* return Promise.all(validationPromises): the promise of routeBatchValidation
\* rejects with the first rejection among the items, and fulfils with the
\* items' results once all of them have fulfilled.
RouteBatchJoin ==
  /\ task[0].pc = "joining"
  /\ \/ \E i \in 1 .. Len(event.regulations) :
          /\ task[i].pc = "raised"
          /\ returned' = Threw(task[i].thrown)
     \/ /\ PromiseAllFulfilled([i \in 1 .. Len(event.regulations) |->
                                  task[i].pc = "returned"])
        /\ returned' = Returned([i \in 1 .. Len(event.regulations) |->
                                   task[i].validationResponse])
  /\ task' = [task EXCEPT ![0].pc = "done"]
  /\ UNCHANGED << entry, pools, registered, auditArn, event, dbPool, dbConfig,
                  auditFailed, results, completed >>

NextRouteBatch ==
  \/ RouteBatchStart
  \/ \E t \in Items : ValidatorReturns(t)
  \/ RouteBatchJoin

SpecRouteBatch == InitRouteBatch /\ [][NextRouteBatch]_vars

\* --------------------------------------------------------- aggregateResults
\* The batch items the aggregation is tried on: parsed 200 bodies with a
\* valid or an invalid result, with or without a certaintyLevel, the error
\* record of the map callback's catch block, a parsed 404 body, and an item
\* with neither data nor error.
AggregateInputs ==
  { SuccessBody(BaseRequest, Result(TRUE, 4, 1, "remote"), FALSE, TRUE),
    SuccessBody(BaseRequest, Result(TRUE, 5, 3, "remote"), FALSE, TRUE),
    SuccessBody(BaseRequest, Result(FALSE, 1, 1, "remote"), FALSE, FALSE),
    SuccessBody(BaseRequest, Result(TRUE, Undefined, 1, "remote"), FALSE, FALSE),
    ItemCatch("R1", "QueryError").value,
    ErrorBody("REGULATION_NOT_FOUND"),
    ErrorBody("none") }

InitAggregate ==
  /\ InitLibrary
  /\ entry = "aggregate"
  /\ \E n \in 0 .. MaxResults : event \in ListsOf(AggregateInputs, n)

AggregateCall ==
  /\ entry = "aggregate"
  /\ ~returned.called
  /\ returned' = Returned(aggregateResults(event))
  /\ LibraryUnchanged

NextAggregate == AggregateCall

SpecAggregate == InitAggregate /\ [][NextAggregate]_vars

\* ------------------------------------------------ processValidationResponse
\* A gate that also rejects a certainty equal to the requirement.
BelowRequirementInclusive(certaintyLevel, requireCertainty) ==
  certaintyLevel # Undefined /\ certaintyLevel <= requireCertainty

\* processedResult.certaintyLevel < requireCertainty; the comparison of an
\* absent certaintyLevel (undefined) with a number is false.
BelowRequirement(certaintyLevel, requireCertainty) ==
  certaintyLevel # Undefined /\ certaintyLevel < requireCertainty

\* processValidationResponse(validationResult, options).  options holds
\* requireCertainty (Undefined when absent) and includeEvidence ("absent",
\* "true" or "false"); a result whose evidence was deleted has evidence
\* "deleted".
processValidationResponse(validationResult, options) ==
  LET requireCertainty == IF options.requireCertainty = Undefined
                          THEN DefaultRequireCertainty ELSE options.requireCertainty
      includeEvidence == options.includeEvidence # "false"
      gated == IF validationResult.isValid
                  /\ BelowRequirement(validationResult.certaintyLevel, requireCertainty)
               THEN [validationResult EXCEPT !.isValid = FALSE,
                                             !.overrideReason = "insufficient_certainty"]
               ELSE validationResult
  IN  IF includeEvidence THEN gated ELSE [gated EXCEPT !.evidence = "deleted"]

InitProcess ==
  /\ InitLibrary
  /\ entry = "process"
  /\ event \in [validationResult :
                  { Result(v, c, 1, "remote") :
                      v \in BOOLEAN, c \in { Undefined, 0, 1, 2, 3, 4, 5, 6 } },
                options : [requireCertainty : { Undefined, 1, 2, 3, 4, 5 },
                           includeEvidence : { "absent", "true", "false" }]]

ProcessCall ==
  /\ entry = "process"
  /\ ~returned.called
  /\ returned' = Returned(processValidationResponse(event.validationResult, event.options))
  /\ LibraryUnchanged

NextProcess == ProcessCall

SpecProcess == InitProcess /\ [][NextProcess]_vars

\* ----------------------------------------------------------- validateRequest
\* Version strings by character class: 1.2.3, 12.0.3, 1.2, 1.2.3.4, 1.2.x,
\* 1..3, .1.2, 1.2.3., v1.2.3, 1.2.3-b, 123 and the missing version.
Versions ==
  { Version123,
    << "d", "d", ".", "d", ".", "d" >>,
    VersionShort,
    << "d", ".", "d", ".", "d", ".", "d" >>,
    << "d", ".", "d", ".", "x" >>,
    << "d", ".", ".", "d" >>,
    << ".", "d", ".", "d" >>,
    << "d", ".", "d", ".", "d", "." >>,
    << "x", "d", ".", "d", ".", "d" >>,
    << "d", ".", "d", ".", "d", "x", "x" >>,
    << "d", "d", "d" >>,
    VersionMissing }

\* Request bodies by shape; an empty text stands for a missing one as well
\* (both are falsy).
ShapeRequests ==
  [regulationId : { "", "R1" }, regulationVersion : Versions, hasContent : BOOLEAN,
   text : { Text0, Text1 }, validationLevel : { Undefined, 0, 1, 2, 3, 4 },
   requireCertainty : { Undefined, 0, 1, 5, 6 }, checkVersionChanges : { FALSE }]

InitValidate ==
  /\ InitLibrary
  /\ entry = "validateRequest"
  /\ event \in ShapeRequests

ValidateCall ==
  /\ entry = "validateRequest"
  /\ ~returned.called
  /\ returned' = Returned(validateRequest(event))
  /\ LibraryUnchanged

NextValidate == ValidateCall

SpecValidate == InitValidate /\ [][NextValidate]_vars

\* ------------------------------------------------------------------ claims
\* const { requireCertainty = 1 } = options
RequireCertainty(request) ==
  IF request.requireCertainty = Undefined THEN DefaultRequireCertainty
  ELSE request.requireCertainty

\* routeToValidator has chosen between a remote validator and the local one.
Routed(rec) == rec.invokedArn # 0 \/ rec.usedBasic

\* The single validation request has been answered.
Answered == entry = "validate" /\ task[0].pc = "done"

\* C1: in the single-validation path a validator result that is valid with a
\* certaintyLevel below options.requireCertainty (default 1) appears in the 200
\* response with isValid = false and overrideReason = "insufficient_certainty".
C1_CertaintyGateApplied ==
  (Answered /\ task[0].response.statusCode = 200
   /\ task[0].validationResponse.isValid
   /\ task[0].validationResponse.certaintyLevel < RequireCertainty(task[0].request))
  => /\ task[0].response.body.validationResult.isValid = FALSE
     /\ task[0].response.body.validationResult.overrideReason = "insufficient_certainty"

\* C2: a single validation request creates an attestation certificate
\* (db.createCertificate called, attestationCertificate in the response) if and
\* only if the validationResult of its response is valid with certaintyLevel >= 4.
C2_AttestationIffValidAndCertain ==
  Answered =>
    LET r == task[0].response
    IN  /\ task[0].certStored <=> r.body.attestationCertificate
        /\ r.body.attestationCertificate => task[0].certCalls = 1
        /\ r.body.attestationCertificate <=>
             (r.statusCode = 200 /\ r.body.validationResult.isValid
              /\ r.body.validationResult.certaintyLevel >= 4)

C2_Witness ==
  Answered /\ task[0].response.statusCode = 200
  /\ task[0].response.body.attestationCertificate
  /\ task[0].response.body.validationResult.certaintyLevel = 4

\* C3: no attestation certificate is created or returned for a request whose
\* result certaintyLevel is below options.requireCertainty, even when the
\* validator reported a valid result with certaintyLevel >= 4.
C3_NoAttestationBelowRequiredCertainty ==
  (entry = "validate" /\ ~task[0].validationResponse.isNull
   /\ task[0].validationResponse.certaintyLevel < RequireCertainty(task[0].request))
  => /\ ~task[0].certStored
     /\ task[0].certCalls = 0
     /\ ~task[0].response.body.attestationCertificate

\* C4: a result of the local basic validator has validationLevel 1 and
\* certaintyLevel 2 for non-empty text, 1 otherwise, and a request answered by
\* it never reaches attestation.
C4_FallbackCap ==
  task[0].usedBasic =>
    /\ task[0].validationResponse.validationLevel = 1
    /\ task[0].validationResponse.certaintyLevel
         = (IF task[0].request.text # << >> THEN 2 ELSE 1)
    /\ task[0].validationResponse.certaintyLevel <= 2
    /\ task[0].pc \notin { "certificate", "certificateIssued" }
    /\ task[0].certCalls = 0
    /\ ~task[0].certStored
    /\ ~task[0].response.body.attestationCertificate

C4_Witness ==
  Answered /\ task[0].usedBasic /\ task[0].response.statusCode = 200
  /\ task[0].response.body.validationResult.isValid

\* C5: whatever way the remote validator call fails (the invocation throws, a
\* FunctionError, an unparseable payload), routeToValidator does not raise and
\* returns the local basic validator's result for the same content.
C5_RemoteFailureFallsBack ==
  task[0].remoteOutcome \in RemoteFailures =>
    /\ task[0].pc # "raised"
    /\ task[0].thrown # "ValidatorUnavailableError"
    /\ task[0].pc # "invoking" =>
         /\ task[0].usedBasic
         /\ task[0].validationResponse = performBasicValidation(task[0].request.text)

C5_Witness ==
  entry = "route" /\ task[0].pc = "returned" /\ task[0].remoteOutcome = "unparseable"
  /\ task[0].request.text = Text0 /\ ~task[0].validationResponse.isValid

\* C6: for a requested level in {1,2,3} and any set of registered validators,
\* the validator invoked is the one registered for the highest level not above
\* the requested one; a validator above the requested level is never invoked.
C6_ResolutionOrder ==
  LET level == RequestedLevel(task[0].request)
      eligible == { l \in registered : l <= level }
  IN  (level \in { 1, 2, 3 } /\ Routed(task[0])) =>
        /\ task[0].invokedArn # 0 =>
             /\ task[0].invokedArn \in eligible
             /\ \A l \in eligible : l <= task[0].invokedArn
        /\ eligible # { } => task[0].invokedArn # 0

C6_Witness ==
  /\ RequestedLevel(task[0].request) = 3
  /\ registered = { 1, 2 }
  /\ task[0].invokedArn = 2

\* C7: within one single validation request the remote validator is invoked
\* at most once; after the call has failed the router answers with the local
\* basic validator without a second remote call.
C7_NoRetry ==
  /\ task[0].remoteCalls <= 1
  /\ task[0].remoteOutcome \in RemoteFailures =>
       /\ task[0].remoteCalls = 1
       /\ task[0].pc # "invoking"
       /\ task[0].usedBasic

C7_Witness ==
  Answered /\ task[0].remoteOutcome = "throw" /\ task[0].response.statusCode = 200
  /\ registered = { 1, 2, 3 } /\ RequestedLevel(task[0].request) = 3

\* The batch has started its items.
FannedOut == entry = "batch" /\ results # << >>

BatchSize == Len(event.regulations)

\* C8: when the processing of a batch item throws or ends in a not-found
\* error, its slot holds an error record, every other slot holds the result
\* built from its own item alone, and the batch still responds 200.
C8_BatchFaultIsolation ==
  FannedOut =>
    /\ task[0].pc \in { "joining", "done" }
    /\ task[0].pc = "done" => task[0].response.statusCode = 200
    /\ \A i \in 1 .. BatchSize :
         /\ task[i].pc # "rejected"
         /\ task[i].pc = "done" =>
              /\ task[i].thrown # "none" =>
                   /\ results[i].error = "VALIDATION_FAILED"
                   /\ results[i].message = task[i].thrown
                   /\ results[i].regulationId = event.regulations[i].regulationId
                   /\ results[i].validationResult.isNull
              /\ (task[i].thrown = "none" /\ task[i].response.statusCode = 404) =>
                   results[i] = ErrorBody("REGULATION_NOT_FOUND")
              /\ (task[i].thrown = "none" /\ task[i].response.statusCode = 400) =>
                   results[i] = ErrorBody("INVALID_REQUEST")
              /\ (task[i].thrown = "none" /\ task[i].response.statusCode = 200) =>
                   results[i] = SuccessBody(ItemRequest(event.regulations[i], event),
                                            task[i].validationResponse,
                                            task[i].versionStatus, task[i].certStored)
              /\ task[i].thrown = "none" => task[i].response.statusCode \in { 200, 400, 404 }

C8_Witness ==
  /\ FannedOut
  /\ BatchSize = 2
  /\ task[0].pc = "done"
  /\ task[0].response.statusCode = 200
  /\ results[1].error = "VALIDATION_FAILED"
  /\ results[2].error = "none"
  /\ results[2].validationResult.isValid
  /\ results[2].regulationId = "R2"

\* C9: whatever the order in which the items complete, the i-th entry of the
\* returned results is the outcome of the i-th regulation of the request.
C9_BatchOutputOrder ==
  FannedOut =>
    /\ Len(results) = BatchSize
    /\ \A i \in 1 .. BatchSize :
         results[i] = (IF task[i].pc = "done" THEN SettledValue(task[i]) ELSE Pending)
    /\ (task[0].pc = "done" /\ task[0].response.statusCode = 200) =>
         /\ Len(task[0].response.body.data) = BatchSize
         /\ \A i \in 1 .. BatchSize :
              task[0].response.body.data[i] = SettledValue(task[i])

C9_Witness ==
  /\ FannedOut
  /\ task[0].pc = "done"
  /\ task[0].response.statusCode = 200
  /\ completed = << 2, 1 >>
  /\ task[0].response.body.data[1].regulationId = "R1"
  /\ task[0].response.body.data[2].error = "REGULATION_NOT_FOUND"

\* The response of a single validation request as its non-audit collaborators
\* determine it.
ExpectedResponse(rec) ==
  IF rec.thrown # "none" THEN [statusCode |-> 500, body |-> ErrorBody("INTERNAL_ERROR")]
  ELSE IF ~RequestIsValid(rec.request)
       THEN [statusCode |-> 400, body |-> ErrorBody("INVALID_REQUEST")]
  ELSE IF ~Routed(rec)
       THEN [statusCode |-> 404, body |-> ErrorBody("REGULATION_NOT_FOUND")]
  ELSE [statusCode |-> 200,
        body |-> SuccessBody(rec.request, rec.validationResponse, rec.versionStatus,
                             rec.certStored)]

\* C10: createAuditEvent never throws, whatever fails among the audit
\* service, the database connection and the database write, so the response
\* of a request is the same whether its audit writes succeed or fail.
C10_AuditFailuresNeverEscalate ==
  /\ task[0].thrown # "AuditWriteError"
  /\ \A a \in AuditOutcomes : ~a.threw
  /\ Answered => task[0].response = ExpectedResponse(task[0])

C10_Witness ==
  Answered /\ auditFailed /\ task[0].response.statusCode = 200
  /\ task[0].certStored /\ auditArn

\* The types of the audit events a task has emitted.
EventTypes(rec) == { rec.events[i].eventType : i \in 1 .. Len(rec.events) }

\* C11: a single validation request that fails structural validation is
\* answered 400 at once: it emits no audit event and calls neither the
\* regulation store, the classifier, a validator, the version service nor the
\* certificate issuer.
C11_InvalidRequestRejectedAtOnce ==
  (entry = "validate" /\ event.parseable /\ task[0].request \in InvalidRequests) =>
    /\ task[0].pc \in { "start", "done" }
    /\ task[0].events = << >>
    /\ task[0].storeCalls = 0
    /\ task[0].classifyCalls = 0
    /\ ~Routed(task[0])
    /\ task[0].remoteCalls = 0
    /\ task[0].versionCalls = 0
    /\ task[0].certCalls = 0
    /\ task[0].pc = "done" =>
         task[0].response = [statusCode |-> 400, body |-> ErrorBody("INVALID_REQUEST")]

C11_Witness ==
  Answered /\ task[0].request.regulationVersion = VersionShort
  /\ task[0].response.statusCode = 400 /\ task[0].events = << >>

\* C12: when the regulation store returns no regulation, the single
\* validation request is answered 404 without the classifier, the router, the
\* version service or the certificate issuer being invoked and without a
\* validation.completed audit event.
C12_NotFoundShortCircuits ==
  (entry = "validate" /\ task[0].storeOutcome = "notFound") =>
    /\ task[0].pc = "done"
    /\ task[0].response = [statusCode |-> 404, body |-> ErrorBody("REGULATION_NOT_FOUND")]
    /\ task[0].classifyCalls = 0
    /\ ~Routed(task[0])
    /\ task[0].remoteCalls = 0
    /\ task[0].versionCalls = 0
    /\ task[0].certCalls = 0
    /\ "validation.completed" \notin EventTypes(task[0])

C12_Witness ==
  Answered /\ task[0].storeOutcome = "notFound" /\ task[0].response.statusCode = 404
  /\ task[0].request.checkVersionChanges /\ registered = { 1, 2, 3 }
  /\ EventTypes(task[0]) = { "validation.requested" }

\* C13: a single validation request for an existing regulation with a valid
\* version, requested level 1 and content text of length 0 ends in a response
\* whose validation result has isValid = false and that has no attestation.
C13_EmptyTextEndsInvalid ==
  (Answered /\ task[0].thrown = "none"
   /\ task[0].request = [BaseRequest EXCEPT !.text = Text0, !.validationLevel = 1]) =>
    /\ task[0].response.statusCode = 200
    /\ ~task[0].response.body.validationResult.isNull
    /\ ~task[0].response.body.validationResult.isValid
    /\ ~task[0].response.body.attestationCertificate

\* The number of regulations of the batch with non-empty text.
NonEmptyCount == Cardinality({ i \in 1 .. BatchSize : event.regulations[i].text # << >> })

\* The items of the batch differ from a well-formed request in their text only.
TextOnlyBatch ==
  /\ entry = "batch" /\ event.parseable /\ event.isArray /\ BatchSize >= 1
  /\ event.requireCertainty = Undefined
  /\ \A i \in 1 .. BatchSize :
       [event.regulations[i] EXCEPT !.text = Text1, !.regulationId = "R1",
                                    !.validationLevel = Undefined] = BaseRequest

\* C14: with no remote validator configured, a batch of N regulations of
\* which k have non-empty text yields the summary totalCount = N,
\* successCount = k, failureCount = N - k (the store answering every item).
C14_BatchSummaryCountsEmptyTexts ==
  (TextOnlyBatch /\ registered = { } /\ task[0].pc = "done" /\ task[0].thrown = "none"
   /\ \A i \in 1 .. BatchSize :
        task[i].pc = "done" => task[i].storeOutcome = "found" /\ task[i].thrown = "none") =>
    /\ task[0].response.statusCode = 200
    /\ Len(results) = BatchSize
    /\ aggregateResults(results).totalCount = BatchSize
    /\ aggregateResults(results).successCount = NonEmptyCount
    /\ aggregateResults(results).failureCount = BatchSize - NonEmptyCount

\* C15: the classifier's determined level is 1 for scores 0..29, 2 for 30..69
\* and 3 for 70..100, non-decreasing in the score, and for a requested level in
\* {1,2,3} the returned validationLevel is the larger of the requested and the
\* determined level, so never below the requested one and always in 1..3.
C15_LevelBandsAndEscalation ==
  /\ \A score \in 0 .. 100 :
       /\ DeterminedLevel(score) = (IF score \in 0 .. 29 THEN 1
                                    ELSE IF score \in 30 .. 69 THEN 2 ELSE 3)
       /\ score < 100 => DeterminedLevel(score) <= DeterminedLevel(score + 1)
  /\ (entry = "classify" /\ returned.called /\ event.requestedLevel \in { 1, 2, 3 }) =>
       LET score == returned.value.complexityScore
           band == IF score \in 0 .. 29 THEN 1 ELSE IF score \in 30 .. 69 THEN 2 ELSE 3
       IN  /\ score \in 0 .. 100
           /\ returned.value.validationLevel
                = (IF event.requestedLevel >= band THEN event.requestedLevel ELSE band)
           /\ returned.value.validationLevel >= event.requestedLevel
           /\ returned.value.validationLevel \in 1 .. 3

C15_Witness ==
  /\ entry = "classify" /\ returned.called
  /\ event.requestedLevel = 1
  /\ returned.value.complexityScore = 30
  /\ returned.value.validationLevel = 2

\* The single-path merge was called on two or more results that all carry a
\* certaintyLevel and a validationLevel.
MergedSeveral ==
  /\ entry = "merge" /\ returned.called /\ ~event.missing
  /\ Len(event.results) >= 2
  /\ \A i \in 1 .. Len(event.results) :
       /\ event.results[i].certaintyLevel # Undefined
       /\ event.results[i].validationLevel # Undefined

\* C16: over two or more results, mergeValidationResults returns isValid = the
\* conjunction of the inputs' isValid, certaintyLevel = the least input
\* certaintyLevel and validationLevel = the greatest input validationLevel,
\* and the three do not depend on the order of the inputs.
C16_MergeConjunctionMinMax ==
  MergedSeveral =>
    LET list == event.results
        n == Len(list)
        merged == returned.value
    IN  /\ ~returned.threw
        /\ merged.isValid = (\A i \in 1 .. n : list[i].isValid)
        /\ \E i \in 1 .. n : list[i].certaintyLevel = merged.certaintyLevel
        /\ \A i \in 1 .. n : list[i].certaintyLevel >= merged.certaintyLevel
        /\ \E i \in 1 .. n : list[i].validationLevel = merged.validationLevel
        /\ \A i \in 1 .. n : list[i].validationLevel <= merged.validationLevel
        /\ \A p \in Permutations(1 .. n) :
             LET other == mergeValidationResults(FALSE, [i \in 1 .. n |-> list[p[i]]]).value
             IN  /\ other.isValid = merged.isValid
                 /\ other.certaintyLevel = merged.certaintyLevel
                 /\ other.validationLevel = merged.validationLevel

C16_Witness ==
  /\ MergedSeveral
  /\ Len(event.results) = 2
  /\ event.results[1].isValid /\ event.results[1].certaintyLevel = 5
  /\ ~event.results[2].isValid /\ event.results[2].certaintyLevel = 2
  /\ ~returned.value.isValid /\ returned.value.certaintyLevel = 2

\* C17: with no input (an empty or a missing array) mergeValidationResults
\* returns the sentinel isValid = false, certaintyLevel = 0 and does not throw.
C17_EmptyMergeSentinel ==
  (entry = "merge" /\ returned.called /\ (event.missing \/ event.results = << >>)) =>
    /\ ~returned.threw
    /\ returned.value.isValid = FALSE
    /\ returned.value.certaintyLevel = 0

C17_Witness ==
  /\ entry = "merge" /\ returned.called /\ event.missing
  /\ ~returned.threw /\ returned.value.certaintyLevel = 0

\* The items of the aggregated list that expose a certaintyLevel (1..5).
Exposing == { i \in 1 .. Len(event) :
                /\ event[i].error = "none"
                /\ ~event[i].validationResult.isNull
                /\ event[i].validationResult.certaintyLevel \in 1 .. 5 }

RECURSIVE CertaintySum(_)
CertaintySum(items) ==
  IF items = { } THEN 0
  ELSE LET i == CHOOSE x \in items : TRUE
       IN  event[i].validationResult.certaintyLevel + CertaintySum(items \ { i })

\* C18: aggregateResults over a non-empty list returns totalCount = the number
\* of items, successCount = the items with a valid validationResult,
\* failureCount = the items with an invalid validationResult plus those with an
\* error object and no validationResult, averageCertainty = the mean
\* certaintyLevel of the items exposing one, to the nearest tenth, and
\* successRate = 100 * successCount / totalCount to the nearest integer.
C18_AggregateSummary ==
  (entry = "aggregate" /\ returned.called /\ Len(event) >= 1) =>
    LET n == Len(event)
        summary == returned.value
        valid == { i \in 1 .. n : ~event[i].validationResult.isNull
                                  /\ event[i].error = "none"
                                  /\ event[i].validationResult.isValid }
        invalid == { i \in 1 .. n : ~event[i].validationResult.isNull
                                    /\ event[i].error = "none"
                                    /\ ~event[i].validationResult.isValid }
        errors == { i \in 1 .. n : event[i].validationResult.isNull
                                   /\ event[i].error # "none" }
        k == Cardinality(Exposing)
    IN  /\ ~returned.threw
        /\ summary.totalCount = n
        /\ summary.successCount = Cardinality(valid)
        /\ summary.failureCount = Cardinality(invalid) + Cardinality(errors)
        /\ k > 0 =>
             /\ 2 * (summary.averageCertainty * k - 10 * CertaintySum(Exposing)) <= k
             /\ 2 * (summary.averageCertainty * k - 10 * CertaintySum(Exposing)) > -k
        /\ 2 * (summary.successRate * n - 100 * summary.successCount) <= n
        /\ 2 * (summary.successRate * n - 100 * summary.successCount) > -n

C18_Witness ==
  /\ entry = "aggregate" /\ returned.called /\ Len(event) = 3
  /\ Cardinality({ i \in 1 .. 3 : event[i].validationResult.isValid
                                  /\ event[i].validationResult.certaintyLevel = 4 }) = 2
  /\ \E i \in 1 .. 3 : event[i].error = "VALIDATION_FAILED"
  /\ returned.value.successCount = 2
  /\ returned.value.failureCount = 1
  /\ returned.value.averageCertainty = 40
  /\ returned.value.successRate = 67

\* C19: for a result with a numeric certaintyLevel and a requireCertainty in
\* 1..5 (1 when absent), processValidationResponse returns isValid = true only
\* if the input is valid with certaintyLevel >= requireCertainty; a valid input
\* below the requirement comes back with isValid = false and overrideReason =
\* "insufficient_certainty"; in every other case isValid is returned as given
\* and no overrideReason is added.
C19_CertaintyGate ==
  (entry = "process" /\ returned.called
   /\ event.validationResult.certaintyLevel # Undefined) =>
    LET input == event.validationResult
        output == returned.value
        required == IF event.options.requireCertainty = Undefined THEN 1
                    ELSE event.options.requireCertainty
    IN  /\ ~returned.threw
        /\ required \in 1 .. 5
        /\ output.isValid => (input.isValid /\ input.certaintyLevel >= required)
        /\ (input.isValid /\ input.certaintyLevel < required) =>
             /\ output.isValid = FALSE
             /\ output.overrideReason = "insufficient_certainty"
        /\ ~(input.isValid /\ input.certaintyLevel < required) =>
             /\ output.isValid = input.isValid
             /\ output.overrideReason = input.overrideReason
        /\ output.certaintyLevel = input.certaintyLevel

C19_Witness ==
  /\ entry = "process" /\ returned.called
  /\ event.validationResult.isValid
  /\ event.validationResult.certaintyLevel = 3
  /\ event.options.requireCertainty = 4
  /\ ~returned.value.isValid
  /\ returned.value.overrideReason = "insufficient_certainty"

\* MAJOR.MINOR.PATCH: exactly two dots, each of the three groups they delimit
\* a non-empty run of digits.
MajorMinorPatch(version) ==
  \E a, b \in 1 .. Len(version) :
    /\ 1 < a /\ a + 1 < b /\ b < Len(version)
    /\ \A k \in 1 .. Len(version) :
         version[k] = (IF k \in { a, b } THEN "." ELSE "d")

\* The fields listed in the errors of a validation outcome.
ErrorFields(outcome) == { outcome.errors[i] : i \in 1 .. Len(outcome.errors) }

\* C20: request-shape validation accepts a single validation request exactly
\* when regulationId is present, regulationVersion is present and of the form
\* MAJOR.MINOR.PATCH, the content text is present, validationLevel (when given)
\* is in {1,2,3} and options.requireCertainty (when given) is in 1..5; each
\* violated rule adds an error entry for its field.
C20_ShapeValidation ==
  (entry = "validateRequest" /\ returned.called) =>
    LET request == event
        outcome == returned.value
        idOk == request.regulationId # ""
        versionOk == request.regulationVersion # << >>
                     /\ MajorMinorPatch(request.regulationVersion)
        textOk == request.hasContent /\ request.text # << >>
        levelOk == request.validationLevel = Undefined
                   \/ request.validationLevel \in { 1, 2, 3 }
        certaintyOk == request.requireCertainty = Undefined
                       \/ request.requireCertainty \in 1 .. 5
    IN  /\ ~returned.threw
        /\ outcome.isValid <=> (idOk /\ versionOk /\ textOk /\ levelOk /\ certaintyOk)
        /\ outcome.isValid <=> (outcome.errors = << >>)
        /\ ~idOk <=> "regulationId" \in ErrorFields(outcome)
        /\ ~versionOk <=> "regulationVersion" \in ErrorFields(outcome)
        /\ ~textOk <=> (ErrorFields(outcome)
                          \cap { "regulationContent", "regulationContent.text" } # { })
        /\ ~levelOk <=> "validationLevel" \in ErrorFields(outcome)
        /\ ~certaintyOk <=> "options.requireCertainty" \in ErrorFields(outcome)

C20_Witness ==
  /\ entry = "validateRequest" /\ returned.called
  /\ event.regulationVersion = << "d", ".", "d", ".", "d", "x", "x" >>
  /\ event.validationLevel = 4
  /\ ~returned.value.isValid
  /\ returned.value.errors = << "validationLevel", "regulationVersion" >>

\* C21 as stated: the local basic validator runs without a remote attempt only
\* when no validator is registered at any level; whenever some validator is
\* registered, a request at a level in {1,2,3} first attempts a remote one.
C21_LocalOnlyWithoutAnyValidator ==
  (RequestedLevel(task[0].request) \in { 1, 2, 3 } /\ Routed(task[0])) =>
    /\ (task[0].usedBasic /\ task[0].remoteCalls = 0) => registered = { }
    /\ registered # { } => task[0].remoteCalls >= 1

\* C21 as amended: the local basic validator runs without a remote attempt
\* only when no validator is registered at or below the requested level;
\* whenever one is, a request at a level in {1,2,3} first attempts a remote
\* validator.
C21_LocalOnlyWithoutEligibleValidator ==
  LET level == RequestedLevel(task[0].request)
      eligible == { l \in registered : l <= level }
  IN  (level \in { 1, 2, 3 } /\ Routed(task[0])) =>
        /\ (task[0].usedBasic /\ task[0].remoteCalls = 0) => eligible = { }
        /\ eligible # { } =>
             /\ task[0].remoteCalls >= 1
             /\ task[0].usedBasic => task[0].remoteOutcome \in RemoteFailures

C21_Witness ==
  /\ Answered /\ task[0].response.statusCode = 200
  /\ RequestedLevel(task[0].request) = 1
  /\ registered = { 2, 3 }
  /\ task[0].usedBasic /\ task[0].remoteCalls = 0

\* The items of the batch that fail structural validation.
InvalidItems ==
  { i \in 1 .. BatchSize : validateValidationRequest(event.regulations[i]) # << >> }

\* C22: a batch in which one item is structurally invalid does not fail as a
\* whole: the batch is answered 200, that item's slot holds an error record
\* and the remaining items are validated and reported.
C22_InvalidItemDoesNotFailBatch ==
  (entry = "batch" /\ event.parseable /\ event.isArray /\ BatchSize \in 2 .. MaxBatchSize
   /\ Cardinality(InvalidItems) = 1
   /\ task[0].pc = "done" /\ task[0].thrown = "none") =>
    /\ task[0].response.statusCode = 200
    /\ Len(task[0].response.body.data) = BatchSize
    /\ \A i \in 1 .. BatchSize :
         IF i \in InvalidItems
         THEN task[0].response.body.data[i].error # "none"
         ELSE task[0].response.body.data[i] = SettledValue(task[i])

\* The types of the audit events a task has emitted, in order.
EventSequence(rec) == [i \in 1 .. Len(rec.events) |-> rec.events[i].eventType]

\* C23: in every batch execution validation.batch.requested is emitted before
\* any item starts, every item is started without waiting for another item to
\* complete, and the aggregation, validation.batch.completed and the batch
\* response come only after all items have completed, with a result or with
\* an error record.
C23_BatchFanOutAndJoin ==
  entry = "batch" =>
    /\ (\E i \in Items : task[i].pc # "idle") =>
         /\ FannedOut
         /\ Len(task[0].events) >= 1
         /\ task[0].events[1].eventType = "validation.batch.requested"
         /\ \A i \in 1 .. BatchSize : task[i].pc # "idle"
    /\ Len(task[0].events) <= 1 => task[0].response.statusCode # 200
    /\ ("validation.batch.completed" \in EventTypes(task[0])
        \/ task[0].response.statusCode = 200) =>
         /\ EventSequence(task[0]) =
              << "validation.batch.requested", "validation.batch.completed" >>
         /\ task[0].events[2].metadata =
              [regulationCount |-> BatchSize,
               successCount |-> aggregateResults(results).successCount,
               failureCount |-> aggregateResults(results).failureCount]
         /\ \A i \in 1 .. BatchSize : task[i].pc = "done" /\ results[i] # Pending
         /\ task[0].response = [statusCode |-> 200,
                                body |-> [error |-> "none", data |-> results]]

C23_Witness ==
  /\ FannedOut /\ BatchSize = 2
  /\ task[0].pc = "done" /\ task[0].response.statusCode = 200
  /\ EventSequence(task[0]) = << "validation.batch.requested", "validation.batch.completed" >>
  /\ completed = << 2, 1 >>
  /\ task[1].thrown # "none" /\ results[1].error = "VALIDATION_FAILED"
  /\ results[2].error = "none"

\* The number of audit events of one type a task has emitted.
EventCount(rec, eventType) ==
  Cardinality({ i \in 1 .. Len(rec.events) : rec.events[i].eventType = eventType })

\* C24: a single validation request emits validation.requested once, before
\* the validator is routed, and every execution that ends in a 200 response
\* emits validation.completed once, after the result is final and any
\* certificate has been issued and before the response; validation.completed
\* never comes without a preceding validation.requested and carries the
\* isValid and certaintyLevel of the response.
C24_AuditOrderOfSingleRequest ==
  entry = "validate" =>
    LET rec == task[0]
        types == EventSequence(rec)
    IN  /\ EventCount(rec, "validation.requested") <= 1
        /\ EventCount(rec, "validation.completed") <= 1
        /\ Routed(rec) => (Len(types) >= 1 /\ types[1] = "validation.requested")
        /\ "certificate.issued" \in EventTypes(rec) => rec.certStored
        /\ "validation.completed" \in EventTypes(rec) =>
             /\ types[1] = "validation.requested"
             /\ types[Len(types)] = "validation.completed"
             /\ Routed(rec)
             /\ rec.pc = "done" /\ rec.response.statusCode = 200
        /\ (rec.pc = "done" /\ rec.response.statusCode = 200) =>
             /\ types = (IF rec.response.body.attestationCertificate
                         THEN << "validation.requested", "certificate.issued",
                                 "validation.completed" >>
                         ELSE << "validation.requested", "validation.completed" >>)
             /\ rec.response.body.attestationCertificate =
                  AttestationDue(rec.response.body.validationResult)
             /\ rec.events[Len(types)].metadata.isValid =
                  rec.response.body.validationResult.isValid
             /\ rec.events[Len(types)].metadata.certaintyLevel =
                  rec.response.body.validationResult.certaintyLevel

C24_Witness ==
  /\ Answered /\ task[0].response.statusCode = 200
  /\ EventSequence(task[0]) =
       << "validation.requested", "certificate.issued", "validation.completed" >>
  /\ task[0].events[3].metadata.isValid
  /\ task[0].events[3].metadata.certaintyLevel = 5
  /\ task[0].invokedArn = 2

\* The exceptions that can leave handleValidationRequest.
HandlerExceptions ==
  { "SyntaxError", "Database connection failed", "QueryError", "VersionServiceError",
    "CertificateStoreError", "TypeError" }

Responded ==
  /\ task[0].pc = "done"
  /\ task[0].response.statusCode \in { 200, 400, 404, 500 }

\* C26: with every collaborator call eventually returning or failing, every
\* single and every batch validation request eventually reaches a terminal
\* state, a 200, 400, 404 or 500 response, stays there, and its response, once
\* produced, is never replaced by another.
C26_Termination ==
  /\ <>[]Responded
  /\ [][task[0].response # NoResponse =>
          /\ task'[0].response = task[0].response
          /\ task'[0].pc = "done"]_vars

C26_Witness ==
  /\ entry = "batch" /\ Responded /\ BatchSize = 2
  /\ task[0].response.statusCode = 200
  /\ task[1].remoteOutcome = "throw"
  /\ task[2].response.statusCode = 404

\* classifyRegulation has been called directly and has returned.
Classified == entry = "classify" /\ returned.called /\ ~returned.threw

\* C27: for every regulation snapshot each of the four classification factors
\* is within 0..100 and the complexityScore, the rounded weighted sum with
\* weights 0.3, 0.2, 0.3, 0.2, is within 0..100.
C27_FactorsAndScoreWithinRange ==
  Classified =>
    LET factors == returned.value.factors
    IN  /\ factors.textComplexity \in 0 .. 100
        /\ factors.contentSize \in 0 .. 100
        /\ factors.changeFrequency \in 0 .. 100
        /\ factors.structuralComplexity \in 0 .. 100
        /\ returned.value.complexityScore \in 0 .. 100
        /\ returned.value.complexityScore =
             RoundTenths(3 * factors.textComplexity + 2 * factors.contentSize
                         + 3 * factors.changeFrequency + 2 * factors.structuralComplexity)

\* C28: the contentSize factor is 100 for a title of at least 100 characters,
\* 50 for a title of at least 50 and fewer than 100 characters, 25 otherwise.
C28_ContentSizeThresholds ==
  Classified =>
    returned.value.factors.contentSize =
      (IF event.regulation.title.length >= 100 THEN 100
       ELSE IF event.regulation.title.length >= 50 THEN 50 ELSE 25)

\* mergeValidationResults has been called on a list and has returned.
Merged == entry = "merge" /\ returned.called /\ ~returned.threw /\ ~event.missing

\* The evidence object of a value that mergeValidationResults returned, as a
\* function from keys to values: the value is a merged result, the sentinel,
\* or the single input itself.
EvidenceObject(value) ==
  IF "hasEvidence" \notin DOMAIN value THEN value.evidence
  ELSE IF ~value.hasEvidence THEN << >>
  ELSE [k \in { value.evidence[j].key : j \in 1 .. Len(value.evidence) } |->
          (CHOOSE j \in 1 .. Len(value.evidence) : value.evidence[j].key = k).value]

\* C29: for every list of two or more results, every evidence entry of every
\* input appears in the merged evidence with its value, under its own key or
\* under the key suffixed with that validator's 1-based index, whatever the
\* values and the keys are.
C29_EvidenceMergeLosesNothing ==
  (Merged /\ Len(event.results) >= 2) =>
    LET merged == EvidenceObject(returned.value)
    IN  \A i \in 1 .. Len(event.results) :
          event.results[i].hasEvidence =>
            \A j \in 1 .. Len(event.results[i].evidence) :
              LET e == event.results[i].evidence[j]
              IN  \E k \in { e.key, Suffixed(e.key, i) } :
                    k \in DOMAIN merged /\ merged[k] = e.value

\* The result carries the merge summary of the n results of `list`.
HasMergeSummary(value, list) ==
  LET evidence == EvidenceObject(value)
      n == Len(list)
  IN  /\ EvidenceKey("validatorCount") \in DOMAIN evidence
      /\ evidence[EvidenceKey("validatorCount")] = ToString(n)
      /\ EvidenceKey("validatorsAgreed") \in DOMAIN evidence
      /\ evidence[EvidenceKey("validatorsAgreed")] \in { "true", "false" }
      /\ "individualResults" \in DOMAIN value
      /\ Len(value.individualResults) = n
      /\ \A i \in 1 .. n :
           value.individualResults[i] =
             [isValid |-> list[i].isValid,
              certaintyLevel |-> list[i].certaintyLevel,
              validationLevel |-> list[i].validationLevel]

\* C30 as stated: for every non-empty list of n results, n = 1 included, the
\* merged result has evidence.validatorCount = n, evidence.validatorsAgreed
\* set and an individualResults array of length n whose i-th entry summarises
\* the i-th input.
C30_MergeSummaryForEveryLength ==
  (Merged /\ Len(event.results) >= 1) =>
    HasMergeSummary(returned.value, event.results)

\* C30 as amended: for every list of n >= 2 results the merged result has
\* evidence.validatorCount = n, evidence.validatorsAgreed set and an
\* individualResults array of length n whose i-th entry summarises the i-th
\* input; for n = 1 the single input is returned unchanged.
C30_MergeSummaryForSeveral ==
  /\ (Merged /\ Len(event.results) >= 2) =>
       /\ HasMergeSummary(returned.value, event.results)
       /\ returned.value.evidence[EvidenceKey("validatorsAgreed")] =
            (IF \A i \in 1 .. Len(event.results) : event.results[i].isValid
             THEN "true" ELSE "false")
  /\ (Merged /\ Len(event.results) = 1) => returned.value = event.results[1]

C30_Witness ==
  /\ Merged /\ Len(event.results) = 3
  /\ HasMergeSummary(returned.value, event.results)
  /\ returned.value.evidence[EvidenceKey("validatorCount")] = "3"
  /\ returned.value.evidence[EvidenceKey("validatorsAgreed")] = "false"
  /\ \E i \in 1 .. 3 : event.results[i].hasEvidence /\ event.results[i].evidence # << >>
       /\ event.results[i].evidence[1].key = EvidenceKey("validatorCount")

\* routeToValidator has returned its result to handleValidationRequest.
RouterReturned(rec) == Routed(rec) /\ rec.pc # "invoking"

\* C31 as stated: the version service is invoked in a single validation
\* request if and only if options.checkVersionChanges is true, at most once,
\* and the response carries a versionStatus only in that case.
C31_VersionServiceIffRequested ==
  (Answered /\ event.parseable) =>
    /\ task[0].versionCalls <= 1
    /\ task[0].versionCalls = 1 <=> task[0].request.checkVersionChanges
    /\ task[0].response.body.versionStatus => task[0].request.checkVersionChanges

\* C31 as amended: the version service is invoked in a single validation
\* request if and only if options.checkVersionChanges is true and the router
\* has returned a result (the request was not ended before by a 400, a 404 or
\* an exception), at most once, and the response carries a versionStatus only
\* in that case.
C31_VersionServiceIffRequestedAndRouted ==
  entry = "validate" =>
    /\ task[0].versionCalls <= 1
    /\ task[0].versionCalls = 1 <=>
         (task[0].request.checkVersionChanges /\ RouterReturned(task[0]))
    /\ task[0].response.body.versionStatus =>
         /\ task[0].request.checkVersionChanges
         /\ task[0].versionCalls = 1
         /\ task[0].response.statusCode = 200

C31_Witness ==
  /\ Answered /\ task[0].response.statusCode = 200
  /\ task[0].request.checkVersionChanges
  /\ task[0].versionCalls = 1
  /\ task[0].response.body.versionStatus
  /\ task[0].remoteCalls = 1

\* C32: when routing one item of the batch fails with a thrown fault,
\* routeBatchValidation still resolves with one entry per input item, the
\* failed item's entry being an error record and every sibling's entry being
\* its own validation result.
C32_RouteBatchIsolatesItems ==
  (entry = "routeBatch" /\ returned.called
   /\ \E i \in 1 .. BatchSize : task[i].pc = "raised") =>
    /\ ~returned.threw
    /\ Len(returned.value) = BatchSize
    /\ \A i \in 1 .. BatchSize :
         task[i].pc = "returned" => returned.value[i] = task[i].validationResponse

\* C33: every validationResult placed in a 200 response has certaintyLevel in
\* 1..5 and validationLevel in 1..3, whatever payload the remote validator
\* returned and whichever path produced the result.
C33_ResultRangesInResponse ==
  (Answered /\ task[0].response.statusCode = 200) =>
    /\ task[0].response.body.validationResult.certaintyLevel \in 1 .. 5
    /\ task[0].response.body.validationResult.validationLevel \in 1 .. 3

\* The callers whose getDbConnection call has returned a client.
Served == { t \in Callers : returned[t].called /\ ~returned[t].threw }

\* C34: for every interleaving of concurrent getDbConnection calls in one
\* execution context at most one connection Pool is ever constructed and all
\* callers receive clients backed by that same pool.
C34_PoolInitialisationRaceFree ==
  entry = "pool" =>
    /\ Len(pools) <= 1
    /\ \A t, u \in Served : returned[t].value.pool = returned[u].value.pool

\* C35: a getDbConnection call that throws, because the secret retrieval or
\* the connection test fails, leaves the cached dbPool and dbConfig exactly as
\* they were before the call (a single caller, so that "before the call" is
\* the initial state).
C35_CacheUnchangedOnError ==
  (entry = "pool" /\ event.callers = 1 /\ returned[0].called /\ returned[0].threw) =>
    /\ dbPool = event.dbPool
    /\ dbConfig = event.dbPool
    /\ pools = (IF event.dbPool THEN << Undefined >> ELSE << >>)

\* C36: for every createAuditEvent call the direct database write is
\* attempted if and only if the audit service is not configured or its
\* invocation failed; an event is never handed both to a successfully invoked
\* audit service and to the database, and each sink is attempted at most once.
C36_AuditSinkSelection ==
  (entry = "audit" /\ returned.called) =>
    LET a == returned.value
        serviceFailed == auditArn /\ ~event.svcOk
    IN  /\ a.directCalls = 1 <=> (~auditArn \/ serviceFailed)
        /\ a.serviceCalls = 1 <=> auditArn
        /\ ~(auditArn /\ event.svcOk /\ a.directCalls >= 1)
        /\ a.serviceCalls <= 1
        /\ a.directCalls <= 1
        /\ (a.sink = "service") <=> (a.directCalls = 0)
        /\ ~a.threw

C36_Witness ==
  /\ entry = "audit" /\ returned.called
  /\ auditArn /\ ~event.svcOk
  /\ returned.value.serviceCalls = 1
  /\ returned.value.directCalls = 1
  /\ returned.value.sink = "db"
  /\ returned.value.logged

C38_CertificateOrVersionFailure ==
  entry = "validate" =>
    /\ task[0].thrown \in { "CertificateStoreError", "VersionServiceError" } =>
         /\ task[0].pc \in { "caught", "done" }
         /\ ~task[0].certStored
         /\ "validation.completed" \notin EventTypes(task[0])
         /\ "certificate.issued" \notin EventTypes(task[0])
         /\ task[0].pc = "done" =>
              /\ task[0].response.statusCode = 500
              /\ task[0].response.body = ErrorBody("INTERNAL_ERROR")
    /\ "certificate.issued" \in EventTypes(task[0]) =>
         /\ task[0].certStored
         /\ task[0].certCalls = 1
    /\ task[0].pc = "certificateIssued" => task[0].certStored

C38_Witness ==
  /\ Answered
  /\ task[0].thrown = "CertificateStoreError"
  /\ task[0].versionStatus
  /\ task[0].certCalls = 1
  /\ task[0].response.statusCode = 500
  /\ EventSequence(task[0]) = << "validation.requested", "request.error" >>

\* C39: in every batch that passes shape validation each item is counted
\* exactly once: the successCount and failureCount reported in the
\* validation.batch.completed audit event add up to its regulationCount,
\* whatever the items produce.
C39_BatchAccounting ==
  entry = "batch" =>
    \A i \in 1 .. Len(task[0].events) :
      task[0].events[i].eventType = "validation.batch.completed" =>
        LET metadata == task[0].events[i].metadata
        IN  /\ metadata.regulationCount = BatchSize
            /\ metadata.successCount + metadata.failureCount = metadata.regulationCount

====
